---------------------------- MODULE Spec2Model ----------------------------
(***************************************************************************)
(* Blackjack table server: the game engine (internal/game), the in-memory *)
(* store and the REST handlers that drive one game.                        *)
(*                                                                         *)
(* A game is one record (BlackjackGame); every method of the engine is an  *)
(* operator from a game to the game it leaves behind plus its result, and  *)
(* every action applies one method to the variable "game".                 *)
(***************************************************************************)
EXTENDS Integers, Sequences, FiniteSets, TLC

VARIABLES
    game,       \* the BlackjackGame held by the store
    last,       \* the last engine call: name, arguments, result, game before it
    rounds,     \* number of PrepareForNextRound calls so far
    reqs,       \* in-flight REST requests (handler goroutines)
    start,      \* the game when the in-flight requests were issued
    hub,        \* the connection hub, its channels and the client sessions
    order,      \* the events sent to the hub and the events it has received
    store       \* the MemoryStore: game objects, games by id, games by table

vars == <<game, last, rounds, reqs, start, hub, order, store>>

\* what the engine and the REST requests on one game leave alone
aside == <<hub, order, store>>

(***************************************************************************)
(* Bounds of the exploration.                                              *)
(***************************************************************************)
MaxRounds == 1         \* PrepareForNextRound is called at most this often
MinBet == 2            \* minBet given to NewBlackjackGame
MaxBet == 3            \* maxBet given to NewBlackjackGame
InitialBalance == 4    \* initialBalance given to AddPlayer
MaxHand == 4     \* cards in a hand that is scored on its own
MaxGames == 3    \* games created in a run of the store
MaxSaves == 4    \* length of a table's list of games in the store
CrowdMax == 26         \* seats filled in the crowded-table runs
QueueCap == 2          \* capacity of a client's send channel (256 in the code)

\* the players that ask for a seat at the table
PlayerIds == {1, 2}
Amounts == (MinBet - 1)..(MaxBet + 1)

(***************************************************************************)
(* Cards and the deck (card.go, deck.go).                                  *)
(***************************************************************************)
Suits == <<"Hearts", "Diamonds", "Clubs", "Spades">>

Ranks == <<"Ace", "2", "3", "4", "5", "6", "7", "8", "9", "10", "Jack", "Queen", "King">>

\* Card{}: what a failed DrawCard returns
ZeroCard == [Suit |-> "", Rank |-> "", Face |-> FALSE]

GetValue(c) ==
    CASE c.Rank = "Ace" -> 11
      [] c.Rank \in {"10", "Jack", "Queen", "King"} -> 10
      [] c.Rank = "2" -> 2
      [] c.Rank = "3" -> 3
      [] c.Rank = "4" -> 4
      [] c.Rank = "5" -> 5
      [] c.Rank = "6" -> 6
      [] c.Rank = "7" -> 7
      [] c.Rank = "8" -> 8
      [] c.Rank = "9" -> 9
      [] OTHER -> 0

NewDeck ==
    [k \in 1..(Len(Suits) * Len(Ranks)) |->
        [Suit |-> Suits[((k - 1) \div Len(Ranks)) + 1],
         Rank |-> Ranks[((k - 1) % Len(Ranks)) + 1],
         Face |-> TRUE]]

\* d.Cards[i], d.Cards[j] = d.Cards[j], d.Cards[i]   (0-based i, j)
Swap(cards, i, j) ==
    [cards EXCEPT ![i + 1] = cards[j + 1], ![j + 1] = cards[i + 1]]

RECURSIVE FisherYates(_, _, _)
FisherYates(cards, i, tape) ==
    IF i <= 0 THEN cards
    ELSE FisherYates(Swap(cards, i, tape[i]), i - 1, tape)

\* Shuffle with the random source answering r.Intn(i+1) = tape[i]
Shuffle(cards, tape) == FisherYates(cards, Len(cards) - 1, tape)

\* Random draws that leave the deck in NewDeck order
TapeSorted == [i \in 1..(Len(Suits) * Len(Ranks) - 1) |-> i]

\* front of the deck: K Q | A J | 6 8 | 10
TapeStandWin ==
    <<1, 0, 1, 1, 1, 3, 1, 2, 3, 4, 6, 8, 13, 14, 15, 16, 17, 18, 19, 20, 21, 22, 23, 24, 25, 26, 27, 28, 29, 30, 31, 32, 33, 34, 35, 36, 37, 38, 39, 40, 41, 42, 43, 44, 45, 46, 47, 48, 49, 50, 51>>

\* back of the deck: ... | 3 4 | K 2, the rest in NewDeck order before them
TapeShortDeck ==
    <<1, 1, 3, 2, 1, 3, 2, 1, 3, 2, 1, 2, 3, 12, 1, 2, 3, 12, 1, 2, 3, 12, 1, 2, 3, 12, 1, 2, 3, 12, 1, 2, 3, 12, 1, 2, 3, 12, 1, 2, 3, 12, 1, 2, 3, 12, 1, 2, 3, 12, 1>>

\* front of the deck: 9 7 | A K | 5 6 | 10
TapeDealer21 ==
    <<1, 0, 1, 4, 5, 3, 1, 2, 3, 7, 10, 11, 13, 14, 15, 16, 17, 18, 19, 20, 21, 22, 23, 24, 25, 26, 27, 28, 29, 30, 31, 32, 33, 34, 35, 36, 37, 38, 39, 40, 41, 42, 43, 44, 45, 46, 47, 48, 49, 50, 51>>

\* front of the deck: 9 7 | A K | A Q
TapeDealerBlackjack ==
    <<1, 0, 2, 2, 2, 1, 2, 3, 4, 5, 7, 9, 10, 11, 14, 15, 16, 17, 18, 19, 20, 21, 22, 23, 25, 26, 27, 28, 29, 30, 31, 32, 33, 34, 35, 36, 37, 38, 39, 40, 41, 42, 43, 44, 45, 46, 47, 48, 49, 50, 51>>

SettleTapes == {TapeDealer21, TapeDealerBlackjack}

Tapes == {TapeSorted, TapeStandWin}

\* a draw from the back of the deck
DrawCard_FromBack(cards) ==
    IF Len(cards) = 0
    THEN [card |-> ZeroCard, ok |-> FALSE, cards |-> cards]
    ELSE [card |-> cards[Len(cards)], ok |-> TRUE, cards |-> SubSeq(cards, 1, Len(cards) - 1)]

DrawCard(cards) ==
    IF Len(cards) = 0
    THEN [card |-> ZeroCard, ok |-> FALSE, cards |-> cards]
    ELSE [card |-> cards[1], ok |-> TRUE, cards |-> SubSeq(cards, 2, Len(cards))]

RemainingCards(cards) == Len(cards)

(***************************************************************************)
(* Hand score (blackjack.go, CalculateHandScore).                          *)
(***************************************************************************)
RECURSIVE SumValues(_)
SumValues(hand) ==
    IF hand = <<>> THEN 0 ELSE GetValue(Head(hand)) + SumValues(Tail(hand))

RECURSIVE CountAces(_)
CountAces(hand) ==
    IF hand = <<>> THEN 0
    ELSE (IF Head(hand).Rank = "Ace" THEN 1 ELSE 0) + CountAces(Tail(hand))

\* a second pass that converts one Ace at most
ConvertAces_Once(score, aces) ==
    IF aces > 0 /\ score > 21 THEN score - 10 ELSE score

RECURSIVE ConvertAces(_, _)
ConvertAces(score, aces) ==
    IF aces > 0 /\ score > 21 THEN ConvertAces(score - 10, aces - 1) ELSE score

CalculateHandScore(hand) == ConvertAces(SumValues(hand), CountAces(hand))


(***************************************************************************)
(* The game engine (blackjack.go).                                         *)
(***************************************************************************)
Waiting == "waiting"
Betting == "betting"
InProgress == "inProgress"
Completed == "completed"

PlayerActive == "active"
PlayerBusted == "busted"
PlayerStood == "stood"
PlayerBlackjack == "blackjack"

\* NewBlackjackGame: a shuffled deck, no seat, status Waiting
NewBlackjackGame(tape) ==
    [Players |-> <<>>,
     Dealer |-> [Hand |-> <<>>, Score |-> 0],
     Deck |-> Shuffle(NewDeck, tape),
     Status |-> Waiting,
     CurrentPlayerIndex |-> 0]

\* seat (1-based) of the first player with this id, 0 when not seated
SeatOf(g, playerID) ==
    IF \E i \in 1..Len(g.Players) : g.Players[i].ID = playerID
    THEN CHOOSE i \in 1..Len(g.Players) :
            /\ g.Players[i].ID = playerID
            /\ \A j \in 1..(i - 1) : g.Players[j].ID # playerID
    ELSE 0

\* AddPlayer seating a new player whatever the status
AddPlayer_AnyStatus(g, playerID, initialBalance) ==
    LET i == SeatOf(g, playerID) IN
    IF i > 0
    THEN IF g.Status = Waiting
         THEN [g |-> [g EXCEPT !.Players[i].IsActive = TRUE], ok |-> TRUE]
         ELSE [g |-> g, ok |-> TRUE]
    ELSE [g |-> [g EXCEPT !.Players = Append(@,
                   [ID |-> playerID, Hand |-> <<>>, Score |-> 0,
                    Status |-> PlayerActive, Bet |-> 0,
                    Balance |-> initialBalance, IsActive |-> FALSE])],
          ok |-> TRUE]

AddPlayer(g, playerID, initialBalance) ==
    LET i == SeatOf(g, playerID) IN
    IF i > 0
    THEN IF g.Status = Waiting
         THEN [g |-> [g EXCEPT !.Players[i].IsActive = TRUE], ok |-> TRUE]
         ELSE [g |-> g, ok |-> TRUE]
    ELSE IF g.Status # Waiting
         THEN [g |-> g, ok |-> FALSE]
         ELSE [g |-> [g EXCEPT !.Players = Append(@,
                        [ID |-> playerID, Hand |-> <<>>, Score |-> 0,
                         Status |-> PlayerActive, Bet |-> 0,
                         Balance |-> initialBalance, IsActive |-> FALSE])],
               ok |-> TRUE]

RemovePlayer(g, playerID) ==
    LET i == SeatOf(g, playerID) IN
    IF i > 0
    THEN [g |-> [g EXCEPT !.Players = SubSeq(@, 1, i - 1) \o SubSeq(@, i + 1, Len(@))],
          ok |-> TRUE]
    ELSE [g |-> g, ok |-> FALSE]

\* PlaceBet without the balance test
PlaceBet_NoBalanceCheck(g, playerID, amount) ==
    LET i == SeatOf(g, playerID) IN
    IF g.Status # Betting THEN [g |-> g, ok |-> FALSE]
    ELSE IF amount < MinBet \/ amount > MaxBet THEN [g |-> g, ok |-> FALSE]
    ELSE IF i = 0 THEN [g |-> g, ok |-> FALSE]
    ELSE [g |-> [g EXCEPT !.Players[i].Bet = amount,
                          !.Players[i].Balance = @ - amount],
          ok |-> TRUE]

\* PlaceBet adding the amount to the bet already placed
PlaceBet_AddsToBet(g, playerID, amount) ==
    LET i == SeatOf(g, playerID) IN
    IF g.Status # Betting THEN [g |-> g, ok |-> FALSE]
    ELSE IF amount < MinBet \/ amount > MaxBet THEN [g |-> g, ok |-> FALSE]
    ELSE IF i = 0 THEN [g |-> g, ok |-> FALSE]
    ELSE IF g.Players[i].Balance < amount THEN [g |-> g, ok |-> FALSE]
    ELSE [g |-> [g EXCEPT !.Players[i].Bet = @ + amount,
                          !.Players[i].Balance = @ - amount],
          ok |-> TRUE]

PlaceBet(g, playerID, amount) ==
    LET i == SeatOf(g, playerID) IN
    IF g.Status # Betting THEN [g |-> g, ok |-> FALSE]
    ELSE IF amount < MinBet \/ amount > MaxBet THEN [g |-> g, ok |-> FALSE]
    ELSE IF i = 0 THEN [g |-> g, ok |-> FALSE]
    ELSE IF g.Players[i].Balance < amount THEN [g |-> g, ok |-> FALSE]
    ELSE [g |-> [g EXCEPT !.Players[i].Bet = amount,
                          !.Players[i].Balance = @ - amount],
          ok |-> TRUE]

\* one iteration of the player loop of DealInitialCards; the result of
\* DrawCard is not looked at, so an empty deck deals Card{}
DealPlayer(g, i) ==
    LET d1 == DrawCard(g.Deck)
        d2 == DrawCard(d1.cards)
        hand == g.Players[i].Hand \o <<[d1.card EXCEPT !.Face = TRUE],
                                       [d2.card EXCEPT !.Face = TRUE]>>
        score == CalculateHandScore(hand)
    IN [g EXCEPT !.Deck = d2.cards,
                 !.Players[i].Hand = hand,
                 !.Players[i].Score = score,
                 !.Players[i].Status = IF score = 21 THEN PlayerBlackjack ELSE @]

RECURSIVE DealPlayers(_, _)
DealPlayers(g, i) ==
    IF i > Len(g.Players) THEN g ELSE DealPlayers(DealPlayer(g, i), i + 1)

DealInitialCards(g) ==
    LET gp == DealPlayers(g, 1)
        d1 == DrawCard(gp.Deck)
        d2 == DrawCard(d1.cards)
        dealerCard1 == [d1.card EXCEPT !.Face = TRUE]
        dealerCard2 == [d2.card EXCEPT !.Face = FALSE]
    IN [gp EXCEPT !.Deck = d2.cards,
                  !.Dealer.Hand = @ \o <<dealerCard1, dealerCard2>>,
                  !.Dealer.Score = GetValue(dealerCard1)]

\* Start without the test that every seat has a bet
Start_NoBetCheck(g) ==
    IF g.Status # Betting \/ Len(g.Players) = 0 THEN [g |-> g, ok |-> FALSE]
    ELSE [g |-> [DealInitialCards(g) EXCEPT !.Status = InProgress,
                                            !.CurrentPlayerIndex = 0,
                                            !.Players[1].IsActive = TRUE],
          ok |-> TRUE]

Start(g) ==
    IF g.Status # Betting \/ Len(g.Players) = 0 THEN [g |-> g, ok |-> FALSE]
    ELSE IF \E i \in 1..Len(g.Players) : g.Players[i].Bet = 0
    THEN [g |-> g, ok |-> FALSE]
    ELSE [g |-> [DealInitialCards(g) EXCEPT !.Status = InProgress,
                                            !.CurrentPlayerIndex = 0,
                                            !.Players[1].IsActive = TRUE],
          ok |-> TRUE]

\* int(float64(bet) * 1.5): truncation toward zero
BlackjackBonus(bet) ==
    IF bet >= 0 THEN (3 * bet) \div 2 ELSE -((3 * (-bet)) \div 2)

\* a settlement paying a win with the bet only
Payout_WinPaysBet(player, dealer) ==
    CASE player.Status = PlayerBusted -> 0
      [] player.Status = PlayerBlackjack ->
            IF Len(dealer.Hand) = 2 /\ dealer.Score = 21
            THEN player.Bet
            ELSE player.Bet + BlackjackBonus(player.Bet)
      [] OTHER ->
            IF dealer.Score > 21 THEN player.Bet
            ELSE IF player.Score > dealer.Score THEN player.Bet
            ELSE IF player.Score = dealer.Score THEN player.Bet
            ELSE 0

\* what DetermineWinners adds to one player's balance
Payout(player, dealer) ==
    CASE player.Status = PlayerBusted -> 0
      [] player.Status = PlayerBlackjack ->
            IF Len(dealer.Hand) = 2 /\ dealer.Score = 21
            THEN player.Bet
            ELSE player.Bet + BlackjackBonus(player.Bet)
      [] OTHER ->
            IF dealer.Score > 21 THEN player.Bet * 2
            ELSE IF player.Score > dealer.Score THEN player.Bet * 2
            ELSE IF player.Score = dealer.Score THEN player.Bet
            ELSE 0

DetermineWinners(g) ==
    [g EXCEPT !.Players =
        [i \in 1..Len(g.Players) |->
            [g.Players[i] EXCEPT !.Balance = @ + Payout(g.Players[i], g.Dealer)]]]

\* the dealer loop drawing at 17 as well
RECURSIVE DealerDraw_DrawsOn17(_)
DealerDraw_DrawsOn17(g) ==
    IF g.Dealer.Score <= 17
    THEN LET d == DrawCard(g.Deck) IN
         IF ~d.ok THEN g
         ELSE LET hand == Append(g.Dealer.Hand, [d.card EXCEPT !.Face = TRUE]) IN
              DealerDraw_DrawsOn17([g EXCEPT !.Deck = d.cards,
                                             !.Dealer.Hand = hand,
                                             !.Dealer.Score = CalculateHandScore(hand)])
    ELSE g

\* for g.Dealer.Score < 17 { draw; append face up; rescore }
RECURSIVE DealerDraw(_)
DealerDraw(g) ==
    IF g.Dealer.Score < 17
    THEN LET d == DrawCard(g.Deck) IN
         IF ~d.ok THEN g
         ELSE LET hand == Append(g.Dealer.Hand, [d.card EXCEPT !.Face = TRUE]) IN
              DealerDraw([g EXCEPT !.Deck = d.cards,
                                   !.Dealer.Hand = hand,
                                   !.Dealer.Score = CalculateHandScore(hand)])
    ELSE g

DealerTurn(g) ==
    LET flipped == [i \in 1..Len(g.Dealer.Hand) |-> [g.Dealer.Hand[i] EXCEPT !.Face = TRUE]]
        g1 == [g EXCEPT !.Dealer.Hand = flipped,
                        !.Dealer.Score = CalculateHandScore(flipped)]
    IN [DetermineWinners(DealerDraw(g1)) EXCEPT !.Status = Completed]

\* the scan of NextPlayer; nextIndex and startIndex are 0-based as in the code
RECURSIVE NextPlayerScan(_, _, _)
NextPlayerScan(g, nextIndex, startIndex) ==
    IF g.Players[nextIndex + 1].Status = PlayerActive
    THEN [g EXCEPT !.CurrentPlayerIndex = nextIndex,
                   !.Players[nextIndex + 1].IsActive = TRUE]
    ELSE LET n == (nextIndex + 1) % Len(g.Players) IN
         IF n = startIndex THEN DealerTurn(g)
         ELSE NextPlayerScan(g, n, startIndex)

NextPlayer(g) ==
    LET nextIndex == (g.CurrentPlayerIndex + 1) % Len(g.Players) IN
    NextPlayerScan(g, nextIndex, nextIndex)

\* seat of the first player that may act under this id, 0 when there is none
ActingSeat(g, playerID) ==
    IF \E i \in 1..Len(g.Players) :
          /\ g.Players[i].ID = playerID
          /\ g.Players[i].IsActive
          /\ g.Players[i].Status = PlayerActive
    THEN CHOOSE i \in 1..Len(g.Players) :
            /\ g.Players[i].ID = playerID
            /\ g.Players[i].IsActive
            /\ g.Players[i].Status = PlayerActive
            /\ \A j \in 1..(i - 1) : ~(/\ g.Players[j].ID = playerID
                                       /\ g.Players[j].IsActive
                                       /\ g.Players[j].Status = PlayerActive)
    ELSE 0

Hit_IgnoresEmptyDeck(g, playerID) ==
    LET i == ActingSeat(g, playerID) IN
    IF g.Status # InProgress THEN [g |-> g, ok |-> FALSE]
    ELSE IF i = 0 THEN [g |-> g, ok |-> FALSE]
    ELSE LET d == DrawCard(g.Deck)
             hand == Append(g.Players[i].Hand, [d.card EXCEPT !.Face = TRUE])
             score == CalculateHandScore(hand)
             g1 == [g EXCEPT !.Deck = d.cards,
                             !.Players[i].Hand = hand,
                             !.Players[i].Score = score]
         IN IF score > 21
            THEN [g |-> NextPlayer([g1 EXCEPT !.Players[i].Status = PlayerBusted,
                                              !.Players[i].IsActive = FALSE]),
                  ok |-> TRUE]
            ELSE [g |-> g1, ok |-> TRUE]

\* Hit busting the player at 21 already
Hit_BustsAt21(g, playerID) ==
    LET i == ActingSeat(g, playerID) IN
    IF g.Status # InProgress THEN [g |-> g, ok |-> FALSE]
    ELSE IF i = 0 THEN [g |-> g, ok |-> FALSE]
    ELSE LET d == DrawCard(g.Deck) IN
         IF ~d.ok THEN [g |-> g, ok |-> FALSE]
         ELSE LET hand == Append(g.Players[i].Hand, [d.card EXCEPT !.Face = TRUE])
                  score == CalculateHandScore(hand)
                  g1 == [g EXCEPT !.Deck = d.cards,
                                  !.Players[i].Hand = hand,
                                  !.Players[i].Score = score]
              IN IF score >= 21
                 THEN [g |-> NextPlayer([g1 EXCEPT !.Players[i].Status = PlayerBusted,
                                                   !.Players[i].IsActive = FALSE]),
                       ok |-> TRUE]
                 ELSE [g |-> g1, ok |-> TRUE]

Hit(g, playerID) ==
    LET i == ActingSeat(g, playerID) IN
    IF g.Status # InProgress THEN [g |-> g, ok |-> FALSE]
    ELSE IF i = 0 THEN [g |-> g, ok |-> FALSE]
    ELSE LET d == DrawCard(g.Deck) IN
         IF ~d.ok THEN [g |-> g, ok |-> FALSE]
         ELSE LET hand == Append(g.Players[i].Hand, [d.card EXCEPT !.Face = TRUE])
                  score == CalculateHandScore(hand)
                  g1 == [g EXCEPT !.Deck = d.cards,
                                  !.Players[i].Hand = hand,
                                  !.Players[i].Score = score]
              IN IF score > 21
                 THEN [g |-> NextPlayer([g1 EXCEPT !.Players[i].Status = PlayerBusted,
                                                   !.Players[i].IsActive = FALSE]),
                       ok |-> TRUE]
                 ELSE [g |-> g1, ok |-> TRUE]

\* Stand leaving the turn flag on the player that stood
Stand_KeepsTurn(g, playerID) ==
    LET i == ActingSeat(g, playerID) IN
    IF g.Status # InProgress THEN [g |-> g, ok |-> FALSE]
    ELSE IF i = 0 THEN [g |-> g, ok |-> FALSE]
    ELSE [g |-> NextPlayer([g EXCEPT !.Players[i].Status = PlayerStood]),
          ok |-> TRUE]

Stand(g, playerID) ==
    LET i == ActingSeat(g, playerID) IN
    IF g.Status # InProgress THEN [g |-> g, ok |-> FALSE]
    ELSE IF i = 0 THEN [g |-> g, ok |-> FALSE]
    ELSE [g |-> NextPlayer([g EXCEPT !.Players[i].Status = PlayerStood,
                                     !.Players[i].IsActive = FALSE]),
          ok |-> TRUE]

\* PrepareForNextRound leaving the bets of the last round on the table
PrepareForNextRound_KeepsBets(g, tape) ==
    [g EXCEPT !.Deck = Shuffle(NewDeck, tape),
              !.Dealer = [Hand |-> <<>>, Score |-> 0],
              !.Players = [i \in 1..Len(g.Players) |->
                              [g.Players[i] EXCEPT !.Hand = <<>>,
                                                   !.Score = 0,
                                                   !.Status = PlayerActive,
                                                   !.IsActive = FALSE]],
              !.Status = Betting]

PrepareForNextRound(g, tape) ==
    [g EXCEPT !.Deck = Shuffle(NewDeck, tape),
              !.Dealer = [Hand |-> <<>>, Score |-> 0],
              !.Players = [i \in 1..Len(g.Players) |->
                              [g.Players[i] EXCEPT !.Hand = <<>>,
                                                   !.Score = 0,
                                                   !.Status = PlayerActive,
                                                   !.Bet = 0,
                                                   !.IsActive = FALSE]],
              !.Status = Betting]

\* GetGameState with the balance of every player in the view
GetGameState_ShowsBalances(g, playerID) ==
    [status |-> g.Status,
     dealer |-> g.Dealer,
     players |-> [i \in 1..Len(g.Players) |->
        [id |-> g.Players[i].ID, score |-> g.Players[i].Score,
         status |-> g.Players[i].Status, bet |-> g.Players[i].Bet,
         isActive |-> g.Players[i].IsActive, hand |-> g.Players[i].Hand,
         balance |-> g.Players[i].Balance]]]

\* GetGameState: the map built for one viewer; the entry of a player has the
\* key "balance" only when the player is the viewer
GetGameState(g, playerID) ==
    [status |-> g.Status,
     dealer |-> g.Dealer,
     players |-> [i \in 1..Len(g.Players) |->
        IF g.Players[i].ID = playerID
        THEN [id |-> g.Players[i].ID, score |-> g.Players[i].Score,
              status |-> g.Players[i].Status, bet |-> g.Players[i].Bet,
              isActive |-> g.Players[i].IsActive, hand |-> g.Players[i].Hand,
              balance |-> g.Players[i].Balance]
        ELSE [id |-> g.Players[i].ID, score |-> g.Players[i].Score,
              status |-> g.Players[i].Status, bet |-> g.Players[i].Bet,
              isActive |-> g.Players[i].IsActive, hand |-> g.Players[i].Hand]]]

\* Handlers.LeaveTable on the table's game: RemovePlayer, then the
\* idle-table rule of the handler
LeaveTable(g, playerID) ==
    LET r == RemovePlayer(g, playerID) IN
    IF ~r.ok THEN r
    ELSE IF Len(r.g.Players) = 0
         THEN [g |-> [r.g EXCEPT !.Status = Completed], ok |-> TRUE]
         ELSE r

(***************************************************************************)
(* The connection hub (hub.go).  A client is known by its number; its      *)
(* record holds the fields of Client, the state of its send channel and of *)
(* its websocket, and where its three goroutines stand.                    *)
(***************************************************************************)
ConnIds == {1, 2, 3}
TableIds == {1, 2}
HubPlayerIds == {1, 2}

\* json.Marshal of a Message: the fields in the order of the struct
Marshal(msg) == <<msg.Type, msg.TableID, msg.PlayerID, msg.Data>>

\* a Client before the handler has made it
NoClient ==
    [tableID |-> 0, playerID |-> 0, send |-> <<>>, closed |-> FALSE,
     conn |-> "none", handler |-> "idle", reader |-> "off", writer |-> "off"]

\* NewHub: empty indices, nobody waiting on the register and unregister
\* channels; panic tells of a send on a closed channel
NewHub ==
    [clients |-> {},
     tables |-> << >>,
     playerMap |-> << >>,
     register |-> <<>>,
     unregister |-> <<>>,
     client |-> [c \in ConnIds |-> NoClient],
     panic |-> FALSE]

\* m[k] = v, for a Go map m
MapPut(m, k, v) == [x \in DOMAIN m \cup {k} |-> IF x = k THEN v ELSE m[x]]

\* delete(m, k)
MapDelete(m, k) == [x \in DOMAIN m \ {k} |-> m[x]]

\* case client := <-h.register
RunRegister(h, c) ==
    LET t == h.client[c].tableID
        p == h.client[c].playerID
        members == IF t \in DOMAIN h.tables THEN h.tables[t] ELSE {}
    IN [h EXCEPT !.clients = @ \cup {c},
                 !.tables = IF t # 0 THEN MapPut(@, t, members \cup {c}) ELSE @,
                 !.playerMap = IF p # 0 THEN MapPut(@, p, c) ELSE @]

\* an unregister that forgets the by-table and by-player indices
RunUnregister_LeavesIndices(h, c) ==
    IF c \notin h.clients THEN h
    ELSE [h EXCEPT !.clients = @ \ {c}, !.client[c].closed = TRUE]

\* case client := <-h.unregister
RunUnregister(h, c) ==
    LET t == h.client[c].tableID
        p == h.client[c].playerID
    IN IF c \notin h.clients THEN h
       ELSE [h EXCEPT
               !.clients = @ \ {c},
               !.client[c].closed = TRUE,
               !.panic = @ \/ h.client[c].closed,
               !.tables = IF t # 0 /\ t \in DOMAIN @
                          THEN IF @[t] \ {c} = {} THEN MapDelete(@, t)
                               ELSE MapPut(@, t, @[t] \ {c})
                          ELSE @,
               !.playerMap = IF p # 0 THEN MapDelete(@, p) ELSE @]

\* a send that makes room in a full queue by dropping its oldest message
TrySend_DropsOldest(h, c, data) ==
    IF h.client[c].closed THEN [h EXCEPT !.panic = TRUE]
    ELSE IF Len(h.client[c].send) < QueueCap
         THEN [h EXCEPT !.client[c].send = Append(@, data)]
         ELSE [h EXCEPT !.client[c].send = Append(Tail(@), data)]

\* select { case client.send <- data: default: }  A send on a closed
\* channel panics; a full channel takes the default case
TrySend(h, c, data) ==
    IF h.client[c].closed THEN [h EXCEPT !.panic = TRUE]
    ELSE IF Len(h.client[c].send) < QueueCap
         THEN [h EXCEPT !.client[c].send = Append(@, data)]
         ELSE h

\* for client := range tableClients { select ... }, the data of each
\* client given by dataFor
RECURSIVE SendEach(_, _, _)
SendEach(h, cs, dataFor) ==
    IF cs = {} THEN h
    ELSE LET c == CHOOSE x \in cs : TRUE IN
         SendEach(TrySend(h, c, dataFor[c]), cs \ {c}, dataFor)

BroadcastToTable(h, tableID, message) ==
    IF tableID \in DOMAIN h.tables
    THEN SendEach(h, h.tables[tableID], [c \in ConnIds |-> Marshal(message)])
    ELSE h

\* the Message BroadcastGameUpdate makes for one client; tableID is
\* game.TableID
GameUpdate(g, tableID, playerID) ==
    [Type |-> "gameUpdate", TableID |-> tableID, PlayerID |-> 0,
     Data |-> GetGameState(g, playerID)]

\* BroadcastGameUpdate sending every client one and the same view
BroadcastGameUpdate_OneView(h, g, tableID) ==
    IF tableID \in DOMAIN h.tables
    THEN SendEach(h, h.tables[tableID],
                  [c \in ConnIds |-> Marshal(GameUpdate(g, tableID, 0))])
    ELSE h

BroadcastGameUpdate(h, g, tableID) ==
    IF tableID \in DOMAIN h.tables
    THEN SendEach(h, h.tables[tableID],
                  [c \in ConnIds |-> Marshal(GameUpdate(g, tableID, h.client[c].playerID))])
    ELSE h

SendToPlayer(h, playerID, message) ==
    IF playerID \in DOMAIN h.playerMap
    THEN TrySend(h, h.playerMap[playerID], Marshal(message))
    ELSE h

(***************************************************************************)
(* The MemoryStore (memory.go) and the table handlers.  The store holds    *)
(* pointers: objects lists the games ever created, a game's id is its      *)
(* place in that list, games maps an id and tables a table to the places.  *)
(***************************************************************************)
\* NewMemoryStore: no game object, nothing under any id or table
NewMemoryStore == [objects |-> <<>>, games |-> << >>, tables |-> << >>]

\* game.NewBlackjackGame(tableID, ...) as a new object of the heap
NewObject(s, tableID, tape) ==
    [s EXCEPT !.objects = Append(@, [ID |-> Len(@) + 1, TableID |-> tableID,
                                     g |-> NewBlackjackGame(tape)])]

\* SaveGame: the id maps to the game, and the game is appended to the list of
\* its table, whether it is in it already or not
SaveGame(s, ptr) ==
    LET t == s.objects[ptr].TableID IN
    [s EXCEPT !.games = MapPut(@, s.objects[ptr].ID, ptr),
              !.tables = MapPut(@, t, Append(IF t \in DOMAIN @ THEN @[t] ELSE <<>>, ptr))]

\* GetGame: the game under the id, 0 for "game not found"
GetGameById(s, id) == IF id \in DOMAIN s.games THEN s.games[id] ELSE 0

\* GetActiveTableGame: the first game in the table's list that is not
\* Completed, 0 for an error
GetActiveTableGame(s, tableID) ==
    IF tableID \notin DOMAIN s.tables THEN 0
    ELSE LET games == s.tables[tableID]
             active == {k \in 1..Len(games) : s.objects[games[k]].g.Status # Completed}
         IN IF active = {} THEN 0
            ELSE games[CHOOSE k \in active : \A j \in active : k <= j]

\* Handlers.NewGame with a table id in the request
HandlersNewGame(s, tableID) ==
    SaveGame(NewObject(s, tableID, TapeStandWin), Len(s.objects) + 1)

\* Handlers.JoinTable
HandlersJoinTable(s, tableID, playerID) ==
    LET found == GetActiveTableGame(s, tableID)
        ptr == IF found = 0 THEN Len(s.objects) + 1 ELSE found
        s1 == IF found = 0 THEN SaveGame(NewObject(s, tableID, TapeStandWin), ptr) ELSE s
        s2 == IF s1.objects[ptr].g.Status = Completed
              THEN SaveGame([s1 EXCEPT !.objects[ptr].g =
                                PrepareForNextRound(@, TapeStandWin)], ptr)
              ELSE s1
        r == AddPlayer(s2.objects[ptr].g, playerID, InitialBalance)
    IN IF ~r.ok THEN s2
       ELSE SaveGame([s2 EXCEPT !.objects[ptr].g = r.g], ptr)

\* Handlers.LeaveTable
HandlersLeaveTable(s, tableID, playerID) ==
    LET ptr == GetActiveTableGame(s, tableID) IN
    IF ptr = 0 THEN s
    ELSE LET r == LeaveTable(s.objects[ptr].g, playerID) IN
         IF ~r.ok THEN s
         ELSE SaveGame([s EXCEPT !.objects[ptr].g = r.g], ptr)

\* Handlers.PlaceBet
HandlersPlaceBet(s, id, playerID, amount) ==
    LET ptr == GetGameById(s, id) IN
    IF ptr = 0 THEN s
    ELSE LET r == PlaceBet(s.objects[ptr].g, playerID, amount) IN
         IF ~r.ok THEN s
         ELSE SaveGame([s EXCEPT !.objects[ptr].g = r.g], ptr)

\* nothing sent to the hub yet; on tells whether the order is being recorded
NoOrder == [on |-> FALSE, submitted |-> <<>>, processed |-> <<>>]

(***************************************************************************)
(* One game driven by a caller that issues one engine call at a time.      *)
(***************************************************************************)
Call(op, pid, amount, r) ==
    /\ game' = r.g
    /\ last' = [op |-> op, pid |-> pid, amount |-> amount, ok |-> r.ok, pre |-> game]
    /\ UNCHANGED <<reqs, start, aside>>

Init ==
    /\ \E tape \in Tapes : game = NewBlackjackGame(tape)
    /\ last = [op |-> "NewBlackjackGame", pid |-> 0, amount |-> 0, ok |-> TRUE, pre |-> game]
    /\ rounds = 0
    /\ reqs = <<>>
    /\ start = game
    /\ hub = NewHub
    /\ order = NoOrder
    /\ store = NewMemoryStore

DoAddPlayer ==
    \E p \in PlayerIds :
        /\ Call("AddPlayer", p, InitialBalance, AddPlayer(game, p, InitialBalance))
        /\ UNCHANGED rounds

DoRemovePlayer ==
    \E p \in PlayerIds :
        /\ Call("RemovePlayer", p, 0, RemovePlayer(game, p))
        /\ UNCHANGED rounds

DoLeaveTable ==
    \E p \in PlayerIds :
        /\ game.Status # Completed      \* GetActiveTableGame finds the game
        /\ Call("LeaveTable", p, 0, LeaveTable(game, p))
        /\ UNCHANGED rounds

DoPlaceBet ==
    \E p \in PlayerIds, amount \in Amounts :
        /\ Call("PlaceBet", p, amount, PlaceBet(game, p, amount))
        /\ UNCHANGED rounds

DoStart ==
    /\ Call("Start", 0, 0, Start(game))
    /\ UNCHANGED rounds

DoHit ==
    \E p \in PlayerIds :
        /\ Call("Hit", p, 0, Hit(game, p))
        /\ UNCHANGED rounds

DoStand ==
    \E p \in PlayerIds :
        /\ Call("Stand", p, 0, Stand(game, p))
        /\ UNCHANGED rounds

DoPrepareForNextRound ==
    \E tape \in Tapes :
        /\ rounds < MaxRounds
        /\ Call("PrepareForNextRound", 0, 0, [g |-> PrepareForNextRound(game, tape), ok |-> TRUE])
        /\ rounds' = rounds + 1

Next ==
    \/ DoAddPlayer
    \/ DoRemovePlayer
    \/ DoLeaveTable
    \/ DoPlaceBet
    \/ DoStart
    \/ DoHit
    \/ DoStand
    \/ DoPrepareForNextRound

Spec == Init /\ [][Next]_vars

(***************************************************************************)
(* A crowded table: players take their seats in id order until the table   *)
(* holds as many hands as the deck has cards for, each bets the minimum,   *)
(* and the round is played.  Hit and Stand are tried for every id.         *)
(***************************************************************************)
\* number of seats whose initial deal, with the dealer's, uses the whole deck
FullTable == (Len(NewDeck) - 2) \div 2

CrowdIds == 1..CrowdMax

CrowdAddPlayer ==
    /\ Len(game.Players) < CrowdMax
    /\ Call("AddPlayer", Len(game.Players) + 1, InitialBalance,
            AddPlayer(game, Len(game.Players) + 1, InitialBalance))
    /\ UNCHANGED rounds

CrowdPrepareForNextRound ==
    /\ rounds < MaxRounds
    /\ Len(game.Players) >= FullTable
    /\ Call("PrepareForNextRound", 0, 0, [g |-> PrepareForNextRound(game, TapeSorted), ok |-> TRUE])
    /\ rounds' = rounds + 1

CrowdPlaceBet ==
    \E p \in CrowdIds :
        /\ SeatOf(game, p) > 0
        /\ game.Players[SeatOf(game, p)].Bet = 0
        /\ \A q \in 1..(p - 1) : game.Players[SeatOf(game, q)].Bet > 0
        /\ Call("PlaceBet", p, MinBet, PlaceBet(game, p, MinBet))
        /\ UNCHANGED rounds

CrowdHit ==
    \E p \in CrowdIds :
        /\ Call("Hit", p, 0, Hit(game, p))
        /\ UNCHANGED rounds

CrowdStand ==
    \E p \in CrowdIds :
        /\ Call("Stand", p, 0, Stand(game, p))
        /\ UNCHANGED rounds

InitCrowd ==
    /\ game = NewBlackjackGame(TapeSorted)
    /\ last = [op |-> "NewBlackjackGame", pid |-> 0, amount |-> 0, ok |-> TRUE, pre |-> game]
    /\ rounds = 0
    /\ reqs = <<>>
    /\ start = game
    /\ hub = NewHub
    /\ order = NoOrder
    /\ store = NewMemoryStore

NextCrowd ==
    \/ CrowdAddPlayer
    \/ CrowdPrepareForNextRound
    \/ CrowdPlaceBet
    \/ DoStart
    \/ CrowdHit
    \/ CrowdStand

SpecCrowd == InitCrowd /\ [][NextCrowd]_vars

(***************************************************************************)
(* Two REST requests for the same game, served by two goroutines          *)
(* (handlers.go: Hit, Stand, PlaceBet).  A handler takes the game pointer  *)
(* from the store (GetGame holds the store's RWMutex only for the map      *)
(* lookup) and then runs the engine method on the shared game with no lock *)
(* held; the method's statements of the two goroutines interleave.         *)
(***************************************************************************)
\* reachable games the requests are issued against
SeatedGame(tape) ==
    AddPlayer(AddPlayer(NewBlackjackGame(tape), 1, InitialBalance).g, 2, InitialBalance).g

BettingGame(tape) == PrepareForNextRound(SeatedGame(tape), tape)

PlayingGame(tape) ==
    Start(PlaceBet(PlaceBet(BettingGame(tape), 1, MinBet).g, 2, MinBet).g).g

StartGames == {BettingGame(tape) : tape \in Tapes} \cup {PlayingGame(tape) : tape \in Tapes}

Request(kind, pid, amount) ==
    [kind |-> kind, pid |-> pid, amount |-> amount,
     pc |-> "GetGame", i |-> 0, card |-> ZeroCard, ok |-> FALSE]

Requests ==
    {Request("Hit", p, 0) : p \in PlayerIds}
        \cup {Request("Stand", p, 0) : p \in PlayerIds}
        \cup {Request("PlaceBet", p, a) : p \in PlayerIds, a \in MinBet..MaxBet}

\* the engine call of a request, run alone
Serve(g, r) ==
    CASE r.kind = "Hit" -> Hit(g, r.pid).g
      [] r.kind = "Stand" -> Stand(g, r.pid).g
      [] OTHER -> PlaceBet(g, r.pid, r.amount).g

Step(k, pc, i, card, ok) ==
    reqs' = [reqs EXCEPT ![k].pc = pc, ![k].i = i, ![k].card = card, ![k].ok = ok]

Goto(k, pc) == Step(k, pc, reqs[k].i, reqs[k].card, reqs[k].ok)

Fail(k) == Step(k, "done", reqs[k].i, reqs[k].card, FALSE)

\* h.store.GetGame(gameID): the pointer to the shared game
GetGame ==
    \E k \in DOMAIN reqs :
        /\ reqs[k].pc = "GetGame"
        /\ Goto(k, "check")
        /\ UNCHANGED <<game, last, rounds, start, aside>>

\* Hit: the status test and the search for the acting seat
HitCheck ==
    \E k \in DOMAIN reqs :
        /\ reqs[k].kind = "Hit" /\ reqs[k].pc = "check"
        /\ IF game.Status # InProgress \/ ActingSeat(game, reqs[k].pid) = 0
           THEN Fail(k)
           ELSE Step(k, "draw", ActingSeat(game, reqs[k].pid), reqs[k].card, reqs[k].ok)
        /\ UNCHANGED <<game, last, rounds, start, aside>>

\* DrawCard: card := d.Cards[0]
HitDraw ==
    \E k \in DOMAIN reqs :
        /\ reqs[k].kind = "Hit" /\ reqs[k].pc = "draw"
        /\ IF Len(game.Deck) = 0
           THEN Fail(k)
           ELSE Step(k, "pop", reqs[k].i, game.Deck[1], reqs[k].ok)
        /\ UNCHANGED <<game, last, rounds, start, aside>>

\* DrawCard: d.Cards = d.Cards[1:]   (slicing an empty deck panics; the
\* server recovers the panic and the request ends)
HitPop ==
    \E k \in DOMAIN reqs :
        /\ reqs[k].kind = "Hit" /\ reqs[k].pc = "pop"
        /\ IF Len(game.Deck) = 0
           THEN Fail(k) /\ UNCHANGED game
           ELSE Goto(k, "append") /\ game' = [game EXCEPT !.Deck = Tail(@)]
        /\ UNCHANGED <<last, rounds, start, aside>>

\* g.Players[i].Hand = append(g.Players[i].Hand, card)
HitAppend ==
    \E k \in DOMAIN reqs :
        /\ reqs[k].kind = "Hit" /\ reqs[k].pc = "append"
        /\ game' = [game EXCEPT !.Players[reqs[k].i].Hand = Append(@, [reqs[k].card EXCEPT !.Face = TRUE])]
        /\ Goto(k, "score")
        /\ UNCHANGED <<last, rounds, start, aside>>

\* the score, the bust test and NextPlayer
HitScore ==
    \E k \in DOMAIN reqs :
        /\ reqs[k].kind = "Hit" /\ reqs[k].pc = "score"
        /\ LET i == reqs[k].i
               score == CalculateHandScore(game.Players[i].Hand)
               g1 == [game EXCEPT !.Players[i].Score = score]
           IN game' = IF score > 21
                      THEN NextPlayer([g1 EXCEPT !.Players[i].Status = PlayerBusted,
                                                 !.Players[i].IsActive = FALSE])
                      ELSE g1
        /\ Step(k, "done", reqs[k].i, reqs[k].card, TRUE)
        /\ UNCHANGED <<last, rounds, start, aside>>

StandCheck ==
    \E k \in DOMAIN reqs :
        /\ reqs[k].kind = "Stand" /\ reqs[k].pc = "check"
        /\ IF game.Status # InProgress \/ ActingSeat(game, reqs[k].pid) = 0
           THEN Fail(k)
           ELSE Step(k, "mark", ActingSeat(game, reqs[k].pid), reqs[k].card, reqs[k].ok)
        /\ UNCHANGED <<game, last, rounds, start, aside>>

\* g.Players[i].Status = PlayerStood; g.Players[i].IsActive = false
StandMark ==
    \E k \in DOMAIN reqs :
        /\ reqs[k].kind = "Stand" /\ reqs[k].pc = "mark"
        /\ game' = [game EXCEPT !.Players[reqs[k].i].Status = PlayerStood,
                                !.Players[reqs[k].i].IsActive = FALSE]
        /\ Goto(k, "next")
        /\ UNCHANGED <<last, rounds, start, aside>>

StandNext ==
    \E k \in DOMAIN reqs :
        /\ reqs[k].kind = "Stand" /\ reqs[k].pc = "next"
        /\ game' = NextPlayer(game)
        /\ Step(k, "done", reqs[k].i, reqs[k].card, TRUE)
        /\ UNCHANGED <<last, rounds, start, aside>>

\* PlaceBet: status, limits, the seat and the balance test (on the copy p)
BetCheck ==
    \E k \in DOMAIN reqs :
        /\ reqs[k].kind = "PlaceBet" /\ reqs[k].pc = "check"
        /\ IF \/ game.Status # Betting
              \/ reqs[k].amount < MinBet \/ reqs[k].amount > MaxBet
              \/ SeatOf(game, reqs[k].pid) = 0
              \/ game.Players[SeatOf(game, reqs[k].pid)].Balance < reqs[k].amount
           THEN Fail(k)
           ELSE Step(k, "bet", SeatOf(game, reqs[k].pid), reqs[k].card, reqs[k].ok)
        /\ UNCHANGED <<game, last, rounds, start, aside>>

\* g.Players[i].Bet = amount
BetSet ==
    \E k \in DOMAIN reqs :
        /\ reqs[k].kind = "PlaceBet" /\ reqs[k].pc = "bet"
        /\ game' = [game EXCEPT !.Players[reqs[k].i].Bet = reqs[k].amount]
        /\ Goto(k, "debit")
        /\ UNCHANGED <<last, rounds, start, aside>>

\* g.Players[i].Balance -= amount
BetDebit ==
    \E k \in DOMAIN reqs :
        /\ reqs[k].kind = "PlaceBet" /\ reqs[k].pc = "debit"
        /\ game' = [game EXCEPT !.Players[reqs[k].i].Balance = @ - reqs[k].amount]
        /\ Step(k, "done", reqs[k].i, reqs[k].card, TRUE)
        /\ UNCHANGED <<last, rounds, start, aside>>

InitConc ==
    /\ game \in StartGames
    /\ last = [op |-> "NewBlackjackGame", pid |-> 0, amount |-> 0, ok |-> TRUE, pre |-> game]
    /\ rounds = 0
    /\ \E r1 \in Requests, r2 \in Requests : reqs = <<r1, r2>>
    /\ start = game
    /\ hub = NewHub
    /\ order = NoOrder
    /\ store = NewMemoryStore

NextConc ==
    \/ GetGame
    \/ HitCheck
    \/ HitDraw
    \/ HitPop
    \/ HitAppend
    \/ HitScore
    \/ StandCheck
    \/ StandMark
    \/ StandNext
    \/ BetCheck
    \/ BetSet
    \/ BetDebit

SpecConc == InitConc /\ [][NextConc]_vars

(***************************************************************************)
(* A table of four: the players take their seats in id order, each bets    *)
(* the minimum, the round is played, and any of them may leave at any time.*)
(***************************************************************************)
TurnIds == {1, 2, 3, 4}

TurnAddPlayer ==
    /\ Len(game.Players) < Cardinality(TurnIds)
    /\ rounds = 0
    /\ Call("AddPlayer", Len(game.Players) + 1, InitialBalance,
            AddPlayer(game, Len(game.Players) + 1, InitialBalance))
    /\ UNCHANGED rounds

TurnPrepareForNextRound ==
    /\ rounds < MaxRounds
    /\ game.Status = Waiting
    /\ Len(game.Players) = Cardinality(TurnIds)
    /\ Call("PrepareForNextRound", 0, 0, [g |-> PrepareForNextRound(game, TapeSorted), ok |-> TRUE])
    /\ rounds' = rounds + 1

TurnPlaceBet ==
    \E p \in TurnIds :
        /\ SeatOf(game, p) > 0
        /\ game.Players[SeatOf(game, p)].Bet = 0
        /\ Call("PlaceBet", p, MinBet, PlaceBet(game, p, MinBet))
        /\ UNCHANGED rounds

TurnRemovePlayer ==
    \E p \in TurnIds :
        /\ Call("RemovePlayer", p, 0, RemovePlayer(game, p))
        /\ UNCHANGED rounds

TurnHit ==
    \E p \in TurnIds :
        /\ Call("Hit", p, 0, Hit(game, p))
        /\ UNCHANGED rounds

TurnStand ==
    \E p \in TurnIds :
        /\ Call("Stand", p, 0, Stand(game, p))
        /\ UNCHANGED rounds

NextTurn ==
    \/ TurnAddPlayer
    \/ TurnPrepareForNextRound
    \/ TurnPlaceBet
    \/ DoStart
    \/ TurnRemovePlayer
    \/ TurnHit
    \/ TurnStand

SpecTurn == InitCrowd /\ [][NextTurn]_vars

(***************************************************************************)
(* A table one seat short of full: the deal leaves two cards in the deck   *)
(* and the dealer a low hand, so that the dealer draws and the deck runs   *)
(* out during the round.                                                   *)
(***************************************************************************)
ShortPrepareForNextRound ==
    /\ rounds < MaxRounds
    /\ Len(game.Players) = FullTable - 1
    /\ Call("PrepareForNextRound", 0, 0, [g |-> PrepareForNextRound(game, TapeShortDeck), ok |-> TRUE])
    /\ rounds' = rounds + 1

\* the player whose turn it is asks for a card
ShortHit ==
    \E p \in CrowdIds :
        /\ ActingSeat(game, p) > 0
        /\ Call("Hit", p, 0, Hit(game, p))
        /\ UNCHANGED rounds

\* the player whose turn it is stands
ShortStand ==
    \E p \in CrowdIds :
        /\ ActingSeat(game, p) > 0
        /\ Call("Stand", p, 0, Stand(game, p))
        /\ UNCHANGED rounds

NextShort ==
    \/ CrowdAddPlayer
    \/ ShortPrepareForNextRound
    \/ CrowdPlaceBet
    \/ DoStart
    \/ ShortHit
    \/ ShortStand

SpecShort == InitCrowd /\ [][NextShort]_vars

(***************************************************************************)
(* A table of two with the Blackjack in the second seat: the dealer makes  *)
(* 21 with three cards, or holds a two-card 21 of its own.                 *)
(***************************************************************************)
SettleAddPlayer ==
    /\ Len(game.Players) < Cardinality(PlayerIds)
    /\ Call("AddPlayer", Len(game.Players) + 1, InitialBalance,
            AddPlayer(game, Len(game.Players) + 1, InitialBalance))
    /\ UNCHANGED rounds

SettlePrepareForNextRound ==
    \E tape \in SettleTapes :
        /\ rounds < MaxRounds
        /\ Len(game.Players) = Cardinality(PlayerIds)
        /\ Call("PrepareForNextRound", 0, 0, [g |-> PrepareForNextRound(game, tape), ok |-> TRUE])
        /\ rounds' = rounds + 1

NextSettle ==
    \/ SettleAddPlayer
    \/ SettlePrepareForNextRound
    \/ DoPlaceBet
    \/ DoStart
    \/ DoHit
    \/ DoStand

SpecSettle == InitCrowd /\ [][NextSettle]_vars

(***************************************************************************)
(* A table of two playing one round after the other: the betting is opened *)
(* from Waiting and again each time a round has been settled.              *)
(***************************************************************************)
RoundsPrepareForNextRound ==
    /\ rounds < MaxRounds + 1
    /\ Len(game.Players) = Cardinality(PlayerIds)
    /\ game.Status \in {Waiting, Completed}
    /\ Call("PrepareForNextRound", 0, 0, [g |-> PrepareForNextRound(game, TapeStandWin), ok |-> TRUE])
    /\ rounds' = rounds + 1

NextRounds ==
    \/ SettleAddPlayer
    \/ RoundsPrepareForNextRound
    \/ DoPlaceBet
    \/ DoStart
    \/ DoHit
    \/ DoStand

SpecRounds == InitCrowd /\ [][NextRounds]_vars

(***************************************************************************)
(* A table of two whose game is looked at: any of three viewers, the third *)
(* without a seat, asks for its view of the game at any time.              *)
(***************************************************************************)
ViewerIds == {1, 2, 3}

DoGetGameState ==
    \E p \in ViewerIds :
        /\ Call("GetGameState", p, 0, [g |-> game, ok |-> TRUE])
        /\ UNCHANGED rounds

NextView ==
    \/ SettleAddPlayer
    \/ SettlePrepareForNextRound
    \/ DoPlaceBet
    \/ DoStart
    \/ DoHit
    \/ DoStand
    \/ DoGetGameState

SpecView == InitCrowd /\ [][NextView]_vars

(***************************************************************************)
(* The hub at work: clients connect, the hub loop receives from its        *)
(* register and unregister channels, callers broadcast, and the read and   *)
(* write pumps of every client run and fail on their own.                  *)
(***************************************************************************)
HubStep(h, o) ==
    /\ hub' = h
    /\ order' = o
    /\ UNCHANGED <<game, last, rounds, reqs, start, store>>

\* a goroutine reaches its send on one of the hub's channels
Submitted(o, event) == IF o.on THEN [o EXCEPT !.submitted = Append(@, event)] ELSE o

\* the hub loop receives the event
Processed(o, event) == IF o.on THEN [o EXCEPT !.processed = Append(@, event)] ELSE o

\* the Message a handler broadcasts to a table
TableMessage(tableID) ==
    [Type |-> "playerLeft", TableID |-> tableID, PlayerID |-> 0, Data |-> <<>>]

\* the Message sent to one player
PlayerMessage(playerID) ==
    [Type |-> "note", TableID |-> 0, PlayerID |-> playerID, Data |-> <<>>]

WelcomeMessage(tableID, playerID) ==
    [Type |-> "welcome", TableID |-> 0, PlayerID |-> 0, Data |-> <<playerID, tableID>>]

\* the query parameters each connection arrives with: two players at table 1,
\* and the first of them again at table 2
ConnTable == <<1, 1, 2>>
ConnPlayer == <<1, 2, 1>>

\* WebSocketHandler up to h.register <- client, where it waits for the hub
WebSocketHandler(c) ==
    /\ hub.client[c].handler = "idle"
    /\ HubStep([hub EXCEPT !.client[c] = [NoClient EXCEPT !.tableID = ConnTable[c],
                                                    !.playerID = ConnPlayer[c],
                                                    !.conn = "open",
                                                    !.handler = "register"],
                      !.register = Append(@, c)],
          Submitted(order, <<"register", c>>))

Connect == \E c \in ConnIds : WebSocketHandler(c)

\* the connections that have arrived so far
Sessions(h) == {c \in ConnIds : h.client[c].handler # "idle"}

\* connection 1 arrives and one of the others, in either order, and no third
PairConnect ==
    \E c \in ConnIds :
        /\ Cardinality((Sessions(hub) \cup {c}) \ {1}) <= 1
        /\ WebSocketHandler(c)

\* Hub.Run receives from h.register
HubRegister ==
    \E c \in ConnIds :
        /\ hub.register # <<>>
        /\ c = Head(hub.register)
        /\ HubStep([RunRegister(hub, c) EXCEPT !.register = Tail(@),
                                          !.client[c].handler = "welcome"],
              Processed(order, <<"register", c>>))

\* WebSocketHandler: client.send <- welcomeData, then go readPump, writePump
Welcome ==
    \E c \in ConnIds :
        /\ hub.client[c].handler = "welcome"
        /\ hub.client[c].closed \/ Len(hub.client[c].send) < QueueCap
        /\ HubStep(IF hub.client[c].closed
              THEN [hub EXCEPT !.panic = TRUE, !.client[c].handler = "done"]
              ELSE [hub EXCEPT
                      !.client[c].send = Append(@,
                          Marshal(WelcomeMessage(hub.client[c].tableID, hub.client[c].playerID))),
                      !.client[c].handler = "done",
                      !.client[c].reader = "read",
                      !.client[c].writer = "write"],
              order)

\* a read pump that closes the connection without telling the hub
readPumpFail_NoUnregister(c) ==
    /\ hub.client[c].reader = "read"
    /\ HubStep([hub EXCEPT !.client[c].reader = "close"], order)

\* readPump: ReadMessage fails (error, timeout, closed connection); the
\* deferred function starts with c.hub.unregister <- c
readPumpFail(c) ==
    /\ hub.client[c].reader = "read"
    /\ HubStep([hub EXCEPT !.client[c].reader = "unregister",
                           !.unregister = Append(@, c)],
               Submitted(order, <<"unregister", c>>))

ReadFail == \E c \in ConnIds : readPumpFail(c)

\* readPump reads from a connection that the write pump has closed
ReadClosedConn ==
    \E c \in ConnIds :
        /\ hub.client[c].conn = "closed"
        /\ readPumpFail(c)

\* Hub.Run receives from h.unregister
HubUnregister ==
    \E c \in ConnIds :
        /\ hub.unregister # <<>>
        /\ c = Head(hub.unregister)
        /\ HubStep([RunUnregister(hub, c) EXCEPT !.unregister = Tail(@),
                                                 !.client[c].reader = "close"],
                   Processed(order, <<"unregister", c>>))

\* readPump's deferred function, after the hub took the unregister: c.conn.Close()
ReaderClose ==
    \E c \in ConnIds :
        /\ hub.client[c].reader = "close"
        /\ HubStep([hub EXCEPT !.client[c].reader = "done", !.client[c].conn = "closed"],
                   order)

\* writePump receives a message and writes it with everything else queued
writePumpWrite(c) ==
    /\ hub.client[c].writer = "write"
    /\ hub.client[c].send # <<>>
    /\ hub.client[c].conn = "open"
    /\ HubStep([hub EXCEPT !.client[c].send = <<>>], order)

WriterWrite == \E c \in ConnIds : writePumpWrite(c)

\* writePump receives a message and fails to write it (write error, or the
\* connection is closed); its deferred function closes the connection
writePumpFail(c) ==
    /\ hub.client[c].writer = "write"
    /\ hub.client[c].send # <<>>
    /\ HubStep([hub EXCEPT !.client[c].send = Tail(@),
                           !.client[c].writer = "done",
                           !.client[c].conn = "closed"],
               order)

WriterFail == \E c \in ConnIds : writePumpFail(c)

\* writePump finds the send channel closed and empty: close message, return
writePumpClosed(c) ==
    /\ hub.client[c].writer = "write"
    /\ hub.client[c].send = <<>>
    /\ hub.client[c].closed
    /\ HubStep([hub EXCEPT !.client[c].writer = "done", !.client[c].conn = "closed"],
               order)

WriterClosed == \E c \in ConnIds : writePumpClosed(c)

\* writePump's ticker fires and the ping cannot be written
WriterPingFail ==
    \E c \in ConnIds :
        /\ hub.client[c].writer = "write"
        /\ HubStep([hub EXCEPT !.client[c].writer = "done", !.client[c].conn = "closed"],
                   order)

TableBroadcast(t) == HubStep(BroadcastToTable(hub, t, TableMessage(t)), order)

DoBroadcastToTable == \E t \in TableIds : TableBroadcast(t)

GameUpdateBroadcast(t) == HubStep(BroadcastGameUpdate(hub, game, t), order)

DoBroadcastGameUpdate == \E t \in TableIds : GameUpdateBroadcast(t)

PlayerSend(p) == HubStep(SendToPlayer(hub, p, PlayerMessage(p)), order)

DoSendToPlayer == \E p \in HubPlayerIds : PlayerSend(p)

InitHub ==
    /\ game = PlayingGame(TapeStandWin)
    /\ last = [op |-> "NewBlackjackGame", pid |-> 0, amount |-> 0, ok |-> TRUE, pre |-> game]
    /\ rounds = 0
    /\ reqs = <<>>
    /\ start = game
    /\ hub = NewHub
    /\ order = NoOrder
    /\ store = NewMemoryStore

NextHub ==
    \/ Connect
    \/ HubRegister
    \/ Welcome
    \/ ReadFail
    \/ HubUnregister
    \/ WriterWrite
    \/ DoBroadcastGameUpdate

SpecHub == InitHub /\ [][NextHub]_vars

\* the sessions of connection 1 and of one other connection, with every way
\* of sending through the hub, the queues filling up with nothing written out
NextSend ==
    \/ PairConnect
    \/ HubRegister
    \/ Welcome
    \/ ReadFail
    \/ HubUnregister
    \/ DoBroadcastToTable
    \/ DoBroadcastGameUpdate
    \/ DoSendToPlayer

SpecSend == InitHub /\ [][NextSend]_vars

\* the sessions of connection 1 and one other, with the order of their register and
\* unregister events recorded
InitOrder ==
    /\ game = PlayingGame(TapeStandWin)
    /\ last = [op |-> "NewBlackjackGame", pid |-> 0, amount |-> 0, ok |-> TRUE, pre |-> game]
    /\ rounds = 0
    /\ reqs = <<>>
    /\ start = game
    /\ hub = NewHub
    /\ order = [NoOrder EXCEPT !.on = TRUE]
    /\ store = NewMemoryStore

NextOrder ==
    \/ PairConnect
    \/ HubRegister
    \/ Welcome
    \/ ReadFail
    \/ HubUnregister
    \/ DoBroadcastToTable

SpecOrder == InitOrder /\ [][NextOrder]_vars

\* the whole life of two sessions.  The hub loop keeps running, a read
\* from a closed connection returns, the read pump's deferred function runs
\* to its end, and the write pump of every client gets to run
NextLife ==
    \/ PairConnect
    \/ HubRegister
    \/ Welcome
    \/ ReadFail
    \/ ReadClosedConn
    \/ HubUnregister
    \/ ReaderClose
    \/ WriterWrite
    \/ WriterFail
    \/ WriterClosed
    \/ WriterPingFail
    \/ DoBroadcastToTable

SpecLife ==
    /\ InitHub
    /\ [][NextLife]_vars
    /\ WF_vars(HubRegister)
    /\ WF_vars(HubUnregister)
    /\ WF_vars(ReadClosedConn)
    /\ WF_vars(ReaderClose)
    /\ \A c \in ConnIds :
          WF_vars(writePumpWrite(c) \/ writePumpFail(c) \/ writePumpClosed(c))

(***************************************************************************)
(* The table handlers on the store: games are created, joined and left     *)
(* through the REST handlers, one request after the other.                 *)
(***************************************************************************)
StoreTables == {1, 2}
StorePlayers == {1, 2}

\* the run stays within the bounds on games and saves
Within(s) ==
    /\ Len(s.objects) <= MaxGames
    /\ \A t \in DOMAIN s.tables : Len(s.tables[t]) <= MaxSaves

StoreStep(s) ==
    /\ Within(s)
    /\ store' = s
    /\ UNCHANGED <<game, last, rounds, reqs, start, hub, order>>

ReqNewGame == \E t \in StoreTables : StoreStep(HandlersNewGame(store, t))

ReqJoinTable ==
    \E t \in StoreTables, p \in StorePlayers : StoreStep(HandlersJoinTable(store, t, p))

ReqLeaveTable ==
    \E t \in StoreTables, p \in StorePlayers : StoreStep(HandlersLeaveTable(store, t, p))

ReqPlaceBet ==
    \E id \in 1..MaxGames, p \in StorePlayers, amount \in MinBet..MaxBet :
        StoreStep(HandlersPlaceBet(store, id, p, amount))

NextStore ==
    \/ ReqNewGame
    \/ ReqJoinTable
    \/ ReqLeaveTable
    \/ ReqPlaceBet

SpecStore == InitCrowd /\ [][NextStore]_vars

(***************************************************************************)
(* A deck on its own: created, shuffled, drawn from and counted.           *)
(***************************************************************************)
DeckTapes == {TapeStandWin, TapeShortDeck}

DeckCall(op, ok, card, n) ==
    [op |-> op, pid |-> 0, amount |-> n, ok |-> ok, pre |-> game, card |-> card]

InitDeck ==
    /\ game = [NewBlackjackGame(TapeSorted) EXCEPT !.Deck = NewDeck]
    /\ last = [op |-> "NewDeck", pid |-> 0, amount |-> 0, ok |-> TRUE, pre |-> game,
               card |-> ZeroCard]
    /\ rounds = 0
    /\ reqs = <<>>
    /\ start = game
    /\ hub = NewHub
    /\ order = NoOrder
    /\ store = NewMemoryStore

\* rounds counts the shuffles of the deck
DeckShuffle ==
    \E tape \in DeckTapes :
        /\ rounds < MaxRounds
        /\ game' = [game EXCEPT !.Deck = Shuffle(@, tape)]
        /\ last' = DeckCall("Shuffle", TRUE, ZeroCard, 0)
        /\ rounds' = rounds + 1
        /\ UNCHANGED <<reqs, start, aside>>

DeckDrawCard ==
    \E r \in {DrawCard(game.Deck)} :
        /\ game' = [game EXCEPT !.Deck = r.cards]
        /\ last' = DeckCall("DrawCard", r.ok, r.card, 0)
        /\ UNCHANGED <<rounds, reqs, start, aside>>

DeckRemainingCards ==
    \E n \in {RemainingCards(game.Deck)} :
        /\ last' = DeckCall("RemainingCards", TRUE, ZeroCard, n)
        /\ UNCHANGED <<game, rounds, reqs, start, aside>>

NextDeck ==
    \/ DeckShuffle
    \/ DeckDrawCard
    \/ DeckRemainingCards

SpecDeck == InitDeck /\ [][NextDeck]_vars

(***************************************************************************)
(* A hand on its own: cards are added to it, of any rank and up to four of *)
(* a rank, and it is scored.  The hand is kept as the dealer's hand.       *)
(***************************************************************************)
InitScore ==
    /\ game = NewBlackjackGame(TapeSorted)
    /\ last = [op |-> "NewBlackjackGame", pid |-> 0, amount |-> 0, ok |-> TRUE, pre |-> game]
    /\ rounds = 0
    /\ reqs = <<>>
    /\ start = game
    /\ hub = NewHub
    /\ order = NoOrder
    /\ store = NewMemoryStore

\* the cards of a rank in the hand
OfRank(hand, rank) == {k \in 1..Len(hand) : hand[k].Rank = rank}

ScoreAddCard ==
    \E rank \in {Ranks[k] : k \in 1..Len(Ranks)} :
        /\ Len(game.Dealer.Hand) < MaxHand
        /\ Cardinality(OfRank(game.Dealer.Hand, rank)) < Len(Suits)
        /\ game' = [game EXCEPT !.Dealer.Hand = Append(@,
                        [Suit |-> Suits[Cardinality(OfRank(@, rank)) + 1],
                         Rank |-> rank, Face |-> TRUE])]
        /\ last' = [op |-> "append", pid |-> 0, amount |-> 0, ok |-> TRUE, pre |-> game]
        /\ UNCHANGED <<rounds, reqs, start, aside>>

ScoreCalculate ==
    \E score \in {CalculateHandScore(game.Dealer.Hand)} :
        /\ last' = [op |-> "CalculateHandScore", pid |-> 0, amount |-> score,
                    ok |-> TRUE, pre |-> game]
        /\ UNCHANGED <<game, rounds, reqs, start, aside>>

NextScore ==
    \/ ScoreAddCard
    \/ ScoreCalculate

SpecScore == InitScore /\ [][NextScore]_vars

(***************************************************************************)
(* Properties.                                                             *)
(***************************************************************************)
RECURSIVE HandsOf(_)
HandsOf(players) ==
    IF players = <<>> THEN <<>> ELSE Head(players).Hand \o HandsOf(Tail(players))

\* every card on the table: the deck, the seated players' hands, the dealer's hand
CardsOf(g) == g.Deck \o HandsOf(g.Players) \o g.Dealer.Hand

CardId(c) == <<c.Suit, c.Rank>>

FaceUp(c) == [c EXCEPT !.Face = TRUE]

ActiveSeats(g) == {i \in 1..Len(g.Players) : g.Players[i].IsActive}

\* C1: in every reachable state the deck, the seated players' hands and the
\* dealer's hand together hold each of the 52 cards exactly once.
C1_CardsConserved ==
    /\ Len(CardsOf(game)) = Len(NewDeck)
    /\ {CardId(CardsOf(game)[k]) : k \in 1..Len(CardsOf(game))}
         = {CardId(NewDeck[k]) : k \in 1..Len(NewDeck)}

\* C2: while the status is InProgress exactly one seated player has
\* IsActive set (the dealer phase runs inside Hit/Stand and ends in
\* Completed, so no InProgress state is in the dealer phase).
C2_TurnInvariant ==
    game.Status = InProgress => Cardinality(ActiveSeats(game)) = 1

AllowedTransitions ==
    {<<Waiting, Betting>>, <<Betting, InProgress>>,
     <<InProgress, Completed>>, <<Completed, Betting>>}

\* C3: the status changes only along Waiting->Betting, Betting->InProgress,
\* InProgress->Completed, Completed->Betting, and PrepareForNextRound
\* changes it only when called from Completed.
C3_StatusTransitions ==
    [][game'.Status # game.Status =>
          /\ <<game.Status, game'.Status>> \in AllowedTransitions
          /\ last'.op = "PrepareForNextRound" => game.Status = Completed]_vars

\* the balance check of PlaceBet reads the seat of the player
BetRejected(g, playerID, amount) ==
    \/ amount < MinBet
    \/ amount > MaxBet
    \/ g.Status # Betting
    \/ SeatOf(g, playerID) = 0
    \/ amount > g.Players[SeatOf(g, playerID)].Balance

\* C5: PlaceBet fails when the amount is below minBet, above maxBet or above
\* the player's balance, when the status is not Betting or the player is not
\* seated; after such a failure the whole game is as it was before the call.
C5_PlaceBetFails ==
    (last.op = "PlaceBet" /\ BetRejected(last.pre, last.pid, last.amount))
        => (~last.ok /\ game = last.pre)

\* a bet within the table limits, during Betting, by a seated player who
\* cannot afford it, has been rejected
C5_Witness ==
    /\ last.op = "PlaceBet"
    /\ ~last.ok
    /\ last.pre.Status = Betting
    /\ last.amount >= MinBet
    /\ last.amount <= MaxBet
    /\ SeatOf(last.pre, last.pid) > 0
    /\ last.amount > last.pre.Players[SeatOf(last.pre, last.pid)].Balance
    /\ last.pre.Players[SeatOf(last.pre, last.pid)].Bet > 0

\* C6: a successful PlaceBet happens only during Betting, takes exactly the
\* amount from that player's balance, sets that player's bet to the amount
\* and changes nothing else of the game.
C6_PlaceBetEffect ==
    (last.op = "PlaceBet" /\ last.ok) =>
        LET i == SeatOf(last.pre, last.pid) IN
        /\ last.pre.Status = Betting
        /\ i > 0
        /\ game.Players[i].Balance = last.pre.Players[i].Balance - last.amount
        /\ game.Players[i].Bet = last.amount
        /\ game = [last.pre EXCEPT !.Players[i].Bet = game.Players[i].Bet,
                                   !.Players[i].Balance = game.Players[i].Balance]

\* a bet has been accepted while another player is seated with a bet of its own
C6_Witness ==
    /\ last.op = "PlaceBet"
    /\ last.ok
    /\ Len(game.Players) = 2
    /\ \A i \in 1..2 : game.Players[i].Bet > 0

StartAllowed(g) ==
    /\ g.Status = Betting
    /\ Len(g.Players) >= 1
    /\ \A i \in 1..Len(g.Players) : g.Players[i].Bet > 0

\* C7: Start succeeds only during Betting with at least one seat and a bet
\* on every seat; otherwise it fails and the game is as it was before.
C7_StartGuard ==
    last.op = "Start" =>
        /\ last.ok => StartAllowed(last.pre)
        /\ ~StartAllowed(last.pre) => (~last.ok /\ game = last.pre)

\* Start has been refused during Betting because one of two seats had no bet
C7_Witness ==
    /\ last.op = "Start"
    /\ ~last.ok
    /\ last.pre.Status = Betting
    /\ Len(last.pre.Players) = 2
    /\ \E i \in 1..2 : last.pre.Players[i].Bet > 0
    /\ \E i \in 1..2 : last.pre.Players[i].Bet = 0

\* C8: after a successful Start with n seats the status is InProgress, every
\* player holds two face-up cards from the front of the deck in seating
\* order, the dealer holds the next two (first up, second down), the deck
\* holds 52 - 2n - 2 cards, a player is Blackjack exactly when its score is
\* 21, and the first seat is the active one.
C8_StartDeal ==
    (last.op = "Start" /\ last.ok) =>
        LET n == Len(game.Players)
            deck == last.pre.Deck
        IN
        /\ game.Status = InProgress
        /\ Len(game.Deck) = 52 - 2 * n - 2
        /\ Len(deck) >= 2 * n + 2
        /\ game.Deck = SubSeq(deck, 2 * n + 3, Len(deck))
        /\ \A i \in 1..n :
              /\ game.Players[i].Hand = <<FaceUp(deck[2 * i - 1]), FaceUp(deck[2 * i])>>
              /\ game.Players[i].Score = CalculateHandScore(game.Players[i].Hand)
              /\ (game.Players[i].Status = PlayerBlackjack) <=> (game.Players[i].Score = 21)
        /\ game.Dealer.Hand = <<FaceUp(deck[2 * n + 1]), [deck[2 * n + 2] EXCEPT !.Face = FALSE]>>
        /\ ActiveSeats(game) = {1}

HitRejected(g, playerID) ==
    \/ g.Status # InProgress
    \/ ActingSeat(g, playerID) = 0
    \/ Len(g.Deck) = 0

\* C9: Hit fails and leaves the game as it was when the status is not
\* InProgress, when the player is not seated with IsActive set and status
\* Active, or when the deck is empty.
C9_HitFails ==
    (last.op = "Hit" /\ HitRejected(last.pre, last.pid))
        => (~last.ok /\ game = last.pre)

\* the player whose turn it is has asked for a card from an empty deck
C9_Witness ==
    /\ last.op = "Hit"
    /\ ~last.ok
    /\ last.pre.Status = InProgress
    /\ ActingSeat(last.pre, last.pid) > 0
    /\ Len(last.pre.Deck) = 0
    /\ Len(CardsOf(last.pre)) = Len(NewDeck)

\* the card a successful Hit gives, the hand and the score it leaves
HitDraws(i) ==
    /\ Len(last.pre.Deck) > 0
    /\ game.Players[i].Hand = Append(last.pre.Players[i].Hand, FaceUp(last.pre.Deck[1]))
    /\ game.Players[i].Score = CalculateHandScore(game.Players[i].Hand)

\* the turn has left seat i: another seat with status Active holds it, or
\* the dealer has played and the game is Completed
TurnAdvanced(i) ==
    \/ /\ game.Status = InProgress
       /\ \E j \in 1..Len(game.Players) :
             /\ j # i
             /\ game.Players[j].Status = PlayerActive
             /\ ActiveSeats(game) = {j}
             /\ game.CurrentPlayerIndex = j - 1
    \/ /\ game.Status = Completed
       /\ ActiveSeats(game) = {}

HitOutcome(i) ==
    /\ game.Players[i].Score > 21 =>
          /\ game.Players[i].Status = PlayerBusted
          /\ ~game.Players[i].IsActive
          /\ TurnAdvanced(i)
    /\ game.Players[i].Score <= 21 =>
          /\ game.Players[i].Status = PlayerActive
          /\ game.Players[i].IsActive
          /\ game.CurrentPlayerIndex = last.pre.CurrentPlayerIndex
          /\ game.Status = InProgress

\* C10 as stated: a successful Hit removes exactly the front card of the
\* deck, appends it face up to the player's hand, sets the score; above 21
\* the player is Busted, not active and the turn advances; otherwise the
\* player stays Active and active and the turn pointer stays.
C10_HitExactlyFrontCard ==
    (last.op = "Hit" /\ last.ok) =>
        LET i == ActingSeat(last.pre, last.pid) IN
        /\ i > 0
        /\ HitDraws(i)
        /\ game.Deck = Tail(last.pre.Deck)
        /\ HitOutcome(i)

RECURSIVE IsSuffix(_, _)
IsSuffix(s, t) ==
    IF Len(s) > Len(t) THEN FALSE
    ELSE IF s = t THEN TRUE
    ELSE IF t = <<>> THEN FALSE
    ELSE IsSuffix(s, Tail(t))

\* C10, amended: as stated, except that when the bust ends the last turn
\* the dealer phase runs inside the same call and draws the cards that
\* follow; the deck is then what is left behind the dealer's draws.
C10_HitEffect ==
    (last.op = "Hit" /\ last.ok) =>
        LET i == ActingSeat(last.pre, last.pid) IN
        /\ i > 0
        /\ HitDraws(i)
        /\ IF game.Status = Completed
           THEN /\ IsSuffix(game.Deck, Tail(last.pre.Deck))
                /\ Len(game.Dealer.Hand) - Len(last.pre.Dealer.Hand)
                      = Len(last.pre.Deck) - 1 - Len(game.Deck)
           ELSE game.Deck = Tail(last.pre.Deck)
        /\ HitOutcome(i)

\* a Hit has busted the last player to act and the dealer has then drawn
C10_Witness ==
    /\ last.op = "Hit"
    /\ last.ok
    /\ game.Status = Completed
    /\ Len(game.Players) = 2
    /\ Len(game.Deck) < Len(last.pre.Deck) - 1

AllDone == reqs # <<>> /\ \A k \in DOMAIN reqs : reqs[k].pc = "done"

\* the games two requests leave when they are served one after the other
SerialOutcomes ==
    {Serve(Serve(start, reqs[1]), reqs[2]), Serve(Serve(start, reqs[2]), reqs[1])}

\* C4: two concurrent Hit/Stand/PlaceBet requests for one game leave the
\* game that some serial order of the two leaves (no lost update, no card
\* drawn twice).
C4_Serializable == AllDone => game \in SerialOutcomes

\* C11: Stand has the preconditions of Hit (status InProgress, the player
\* seated with IsActive set and status Active) and otherwise fails leaving
\* the game as it was; on success the player is Stood and no longer active,
\* its hand and score are as before, and the turn advances.
C11_StandEffect ==
    last.op = "Stand" =>
        LET i == ActingSeat(last.pre, last.pid) IN
        IF last.pre.Status # InProgress \/ i = 0
        THEN ~last.ok /\ game = last.pre
        ELSE /\ last.ok
             /\ game.Players[i].Status = PlayerStood
             /\ ~game.Players[i].IsActive
             /\ game.Players[i].Hand = last.pre.Players[i].Hand
             /\ game.Players[i].Score = last.pre.Players[i].Score
             /\ game.Status = InProgress => game.Deck = last.pre.Deck
             /\ TurnAdvanced(i)

\* the first of two players has stood and the turn has passed to the second
C11_Witness ==
    /\ last.op = "Stand"
    /\ last.ok
    /\ game.Status = InProgress
    /\ Len(game.Players) = 2
    /\ game.Players[1].Status = PlayerStood
    /\ ActiveSeats(game) = {2}

\* number of seats from seat i forward to seat j around a table of n
SeatsAhead(i, j, n) == (j - i + n) % n

\* the first seat after seat i, in cyclic seating order, whose status is
\* Active; 0 when no other seat is Active
FirstActiveAfter(g, i) ==
    LET n == Len(g.Players)
        c == {j \in (1..n) \ {i} : g.Players[j].Status = PlayerActive}
    IN IF c = {} THEN 0
       ELSE CHOOSE j \in c : \A k \in c : SeatsAhead(i, j, n) <= SeatsAhead(i, k, n)

\* the last call was a Hit or Stand by the player in seat i that ended its turn
TurnEnded(i) ==
    /\ last.op \in {"Hit", "Stand"}
    /\ last.ok
    /\ i > 0
    /\ game.Players[i].Status # PlayerActive

\* C12: when the turn of seat i ends, the first seat after i in cyclic
\* seating order whose status is Active becomes the active one and no other
\* seat is active; the dealer phase runs exactly when no seat is Active; a
\* seat that is Busted, Stood or Blackjack is never made active.
C12_TurnAdvance ==
    LET i == ActingSeat(last.pre, last.pid) IN
    TurnEnded(i) =>
        LET j == FirstActiveAfter(last.pre, i) IN
        /\ (game.Status = Completed) <=> (j = 0)
        /\ j > 0 => /\ ActiveSeats(game) = {j}
                    /\ game.CurrentPlayerIndex = j - 1
        /\ j = 0 => ActiveSeats(game) = {}
        /\ \A k \in 1..Len(game.Players) :
              (game.Players[k].IsActive /\ ~last.pre.Players[k].IsActive)
                  => last.pre.Players[k].Status = PlayerActive

\* the last call ended the turn of the last player to act: no seat is left
\* with status Active and the dealer has played
DealerPlayed ==
    /\ TurnEnded(ActingSeat(last.pre, last.pid))
    /\ \A k \in 1..Len(game.Players) : game.Players[k].Status # PlayerActive

\* the deck the dealer phase found
DealerDeck == IF last.op = "Hit" THEN Tail(last.pre.Deck) ELSE last.pre.Deck

\* C13: when the dealer phase has finished every dealer card is face up, the
\* dealer's score is the score of its whole hand and is at least 17 unless
\* the deck is empty; the dealer drew from the front of the deck and only
\* while its score was below 17; every player has been paid and the status
\* is Completed.
C13_DealerPhase ==
    DealerPlayed =>
        LET hand == game.Dealer.Hand
            held == Len(last.pre.Dealer.Hand)
            drawn == Len(hand) - held
        IN
        /\ \A k \in 1..Len(hand) : hand[k].Face
        /\ game.Dealer.Score = CalculateHandScore(hand)
        /\ game.Dealer.Score >= 17 \/ Len(game.Deck) = 0
        /\ drawn >= 0
        /\ drawn <= Len(DealerDeck)
        /\ hand = [k \in 1..Len(hand) |->
                     IF k <= held THEN FaceUp(last.pre.Dealer.Hand[k])
                     ELSE FaceUp(DealerDeck[k - held])]
        /\ game.Deck = SubSeq(DealerDeck, drawn + 1, Len(DealerDeck))
        /\ \A k \in held..(Len(hand) - 1) : CalculateHandScore(SubSeq(hand, 1, k)) < 17
        /\ \A i \in 1..Len(game.Players) :
              game.Players[i].Balance
                  = last.pre.Players[i].Balance + Payout(game.Players[i], game.Dealer)
        /\ game.Status = Completed

\* the dealer has drawn the last card of the deck and stopped below 17
C13_Witness ==
    /\ DealerPlayed
    /\ Len(game.Dealer.Hand) > Len(last.pre.Dealer.Hand)
    /\ Len(game.Deck) = 0
    /\ game.Dealer.Score < 17
    /\ game.Dealer.Score > 0

\* what the settlement owes a player that is not Blackjack
Credit(player, dealer) ==
    IF player.Status = PlayerBusted THEN 0
    ELSE IF dealer.Score > 21 \/ player.Score > dealer.Score THEN 2 * player.Bet
    ELSE IF player.Score = dealer.Score THEN player.Bet
    ELSE 0

\* the bets and balances are those of the game before the last call
StakesKept ==
    /\ Len(game.Players) = Len(last.pre.Players)
    /\ \A i \in 1..Len(game.Players) :
          /\ game.Players[i].Bet = last.pre.Players[i].Bet
          /\ game.Players[i].Balance = last.pre.Players[i].Balance

\* C14: the settlement credits a player that is neither Busted nor Blackjack
\* with twice its bet when the dealer is bust or scores less, with its bet
\* when the scores are equal and with nothing when it scores less; a Busted
\* player is credited nothing.  The bet was taken from the balance when it
\* was placed (C6) and Start, Hit and Stand leave bets and balances alone
\* until the settlement, so a player that stood at 20 against a dealer bust
\* ends with its balance from before the bet plus the bet.
C14_Settlement ==
    /\ DealerPlayed =>
          \A i \in 1..Len(game.Players) :
              /\ game.Players[i].Bet = last.pre.Players[i].Bet
              /\ game.Players[i].Status # PlayerBlackjack =>
                    game.Players[i].Balance
                        = last.pre.Players[i].Balance + Credit(game.Players[i], game.Dealer)
              /\ (/\ game.Players[i].Status = PlayerStood
                  /\ game.Players[i].Score = 20
                  /\ game.Dealer.Score > 21) =>
                    game.Players[i].Balance
                        = (last.pre.Players[i].Balance + last.pre.Players[i].Bet)
                              + game.Players[i].Bet
    /\ (last.op \in {"Start", "Hit", "Stand"} /\ ~DealerPlayed) => StakesKept

\* a player has stood at 20, the dealer has gone bust and the player has
\* been credited twice its bet
C14_Witness ==
    /\ DealerPlayed
    /\ game.Dealer.Score > 21
    /\ \E i \in 1..Len(game.Players) :
          /\ game.Players[i].Status = PlayerStood
          /\ game.Players[i].Score = 20
          /\ game.Players[i].Bet >= MinBet
          /\ game.Players[i].Balance = last.pre.Players[i].Balance + 2 * game.Players[i].Bet

\* the dealer holds a two-card 21
DealerBlackjack(dealer) == Len(dealer.Hand) = 2 /\ dealer.Score = 21

\* C15: the settlement refunds the bet of a Blackjack player when the dealer
\* has exactly two cards totaling 21 (net gain 0) and otherwise returns the
\* bet with 1.5 times the bet on top, a net gain of exactly 1.5 x bet over
\* the balance from before the bet, for every bet from minBet to maxBet.
C15_BlackjackPays ==
    DealerPlayed =>
        \A i \in 1..Len(game.Players) :
            game.Players[i].Status = PlayerBlackjack =>
                LET before == last.pre.Players[i].Balance + last.pre.Players[i].Bet
                    gain == game.Players[i].Balance - before
                IN IF DealerBlackjack(game.Dealer)
                   THEN gain = 0
                   ELSE 2 * gain = 3 * game.Players[i].Bet

\* C16: when the dealer has reached 21 with three cards, a player holding a
\* two-card Blackjack is refunded exactly its bet and is not paid 3:2.
C16_ThreeCardPush ==
    (/\ DealerPlayed
     /\ Len(game.Dealer.Hand) = 3
     /\ game.Dealer.Score = 21) =>
        \A i \in 1..Len(game.Players) :
            (/\ game.Players[i].Status = PlayerBlackjack
             /\ Len(game.Players[i].Hand) = 2) =>
                game.Players[i].Balance
                    = last.pre.Players[i].Balance + game.Players[i].Bet

\* C17: after PrepareForNextRound the balances and the seating order are
\* those of before, every hand is empty with score 0, every player is
\* Active with bet 0 and not active, the deck holds the 52 distinct cards
\* and the status is Betting.
C17_NextRound ==
    last.op = "PrepareForNextRound" =>
        /\ Len(game.Players) = Len(last.pre.Players)
        /\ \A i \in 1..Len(game.Players) :
              /\ game.Players[i].ID = last.pre.Players[i].ID
              /\ game.Players[i].Balance = last.pre.Players[i].Balance
              /\ game.Players[i].Hand = <<>>
              /\ game.Players[i].Score = 0
              /\ game.Players[i].Status = PlayerActive
              /\ game.Players[i].Bet = 0
              /\ ~game.Players[i].IsActive
        /\ game.Dealer.Hand = <<>>
        /\ game.Dealer.Score = 0
        /\ Len(game.Deck) = Len(NewDeck)
        /\ {CardId(game.Deck[k]) : k \in 1..Len(game.Deck)}
              = {CardId(NewDeck[k]) : k \in 1..Len(NewDeck)}
        /\ game.Status = Betting

\* the next round has been prepared after a settled round in which the two
\* players held cards and bets and one of them had won
C17_Witness ==
    /\ last.op = "PrepareForNextRound"
    /\ last.pre.Status = Completed
    /\ Len(last.pre.Players) = 2
    /\ \A i \in 1..2 : /\ Len(last.pre.Players[i].Hand) >= 2
                        /\ last.pre.Players[i].Bet >= MinBet
    /\ \E i \in 1..2 : last.pre.Players[i].Balance > InitialBalance
    /\ \E i \in 1..2 : last.pre.Players[i].Status = PlayerStood
    /\ Len(last.pre.Deck) < Len(NewDeck)

\* the seat AddPlayer gives a new player
NewSeat(playerID, initialBalance) ==
    [ID |-> playerID, Hand |-> <<>>, Score |-> 0, Status |-> PlayerActive,
     Bet |-> 0, Balance |-> initialBalance, IsActive |-> FALSE]

\* C18: for an id that is not seated, AddPlayer during Waiting appends a
\* seat with the given balance, an empty hand, bet 0, status Active and
\* IsActive false, and changes nothing else; in any other status it fails
\* and the game is as it was.
C18_AddPlayerNew ==
    (last.op = "AddPlayer" /\ SeatOf(last.pre, last.pid) = 0) =>
        IF last.pre.Status = Waiting
        THEN /\ last.ok
             /\ game = [last.pre EXCEPT
                           !.Players = Append(@, NewSeat(last.pid, last.amount))]
        ELSE ~last.ok /\ game = last.pre

\* a player that is not seated has been refused during a round that another
\* player is playing
C18_Witness ==
    /\ last.op = "AddPlayer"
    /\ ~last.ok
    /\ last.pre.Status = InProgress
    /\ Len(last.pre.Players) = 1
    /\ SeatOf(last.pre, last.pid) = 0

\* C19: AddPlayer for an id that is already seated succeeds, in any status,
\* and leaves that seat (hand, score, status, bet, balance, IsActive), the
\* number of seats and their order as they were.
C19_AddPlayerIdempotent ==
    (last.op = "AddPlayer" /\ SeatOf(last.pre, last.pid) > 0) =>
        /\ last.ok
        /\ game.Players = last.pre.Players

\* the seats without seat i, in their order
WithoutSeat(players, i) == SubSeq(players, 1, i - 1) \o SubSeq(players, i + 1, Len(players))

\* C20: RemovePlayer, in any status, removes exactly the seat of the player
\* and keeps the order of the others; when no seat is left the status is
\* Completed afterwards; for an id that is not seated it fails and the game
\* is as it was.
C20_RemovePlayer ==
    last.op = "RemovePlayer" =>
        LET i == SeatOf(last.pre, last.pid) IN
        IF i = 0
        THEN ~last.ok /\ game = last.pre
        ELSE /\ last.ok
             /\ game.Players = WithoutSeat(last.pre.Players, i)
             /\ Len(game.Players) = 0 => game.Status = Completed

\* balances a player may hold
Balances == 0..(InitialBalance + 2 * MaxBet)

\* the games that differ from g at most in the balances of the players
\* other than playerID
SameButOthersBalances(g, playerID) ==
    {[g EXCEPT !.Players = [i \in 1..Len(g.Players) |->
                               [g.Players[i] EXCEPT !.Balance = b[i]]]] :
        b \in {c \in [1..Len(g.Players) -> Balances] :
                  \A i \in 1..Len(g.Players) :
                      g.Players[i].ID = playerID => c[i] = g.Players[i].Balance}}

\* C21: the view GetGameState gives a viewer lists every seated player, in
\* seating order, with id, score, status, bet, isActive and hand, holds a
\* balance for the seat of the viewer and for no other seat, is the same for
\* every game that differs only in the balances of the other players, and
\* asking for it leaves the game as it was.
C21_View ==
    last.op = "GetGameState" =>
        LET view == GetGameState(last.pre, last.pid) IN
        /\ game = last.pre
        /\ Len(view.players) = Len(game.Players)
        /\ \A i \in 1..Len(game.Players) :
              /\ view.players[i].id = game.Players[i].ID
              /\ view.players[i].score = game.Players[i].Score
              /\ view.players[i].status = game.Players[i].Status
              /\ view.players[i].bet = game.Players[i].Bet
              /\ view.players[i].isActive = game.Players[i].IsActive
              /\ view.players[i].hand = game.Players[i].Hand
              /\ ("balance" \in DOMAIN view.players[i]) <=> (game.Players[i].ID = last.pid)
              /\ game.Players[i].ID = last.pid =>
                    view.players[i].balance = game.Players[i].Balance
        /\ \A h \in SameButOthersBalances(game, last.pid) :
              GetGameState(h, last.pid) = view

\* a seated player has looked at a round in progress in which the other
\* player holds a different balance
C21_Witness ==
    /\ last.op = "GetGameState"
    /\ game.Status = InProgress
    /\ Len(game.Players) = 2
    /\ SeatOf(game, last.pid) > 0
    /\ game.Players[1].Balance # game.Players[2].Balance

\* the clients the hub has in its all-connections index
Registered(h) == h.clients

\* the clients indexed under a table
OnTable(h, t) == IF t \in DOMAIN h.tables THEN h.tables[t] ELSE {}

\* C22: one BroadcastGameUpdate for a table appends exactly one message to the
\* queue of every connection registered under that table whose queue has room,
\* that message being the view of the game for the connection's own player,
\* and leaves every other queue as it was
C22_GameUpdateFanOut ==
    [][\A t \in TableIds :
        GameUpdateBroadcast(t) =>
            \A c \in ConnIds :
                LET was == hub.client[c]
                IN  IF /\ c \in Registered(hub)
                       /\ was.tableID = t
                       /\ Len(was.send) < QueueCap
                    THEN hub'.client[c].send =
                            Append(was.send,
                                   <<"gameUpdate", t, 0, GetGameState(game, was.playerID)>>)
                    ELSE hub'.client[c].send = was.send]_vars

LastSent(h, c) == h.client[c].send[Len(h.client[c].send)]

\* the messages of one type in a client's queue
Queued(h, c, type) == {k \in 1..Len(h.client[c].send) : h.client[c].send[k][1] = type}

C22_Witness ==
    \E c, d, e \in Registered(hub) :
        /\ hub.client[c].tableID = hub.client[d].tableID
        /\ hub.client[e].tableID # hub.client[c].tableID
        /\ hub.client[c].playerID # hub.client[d].playerID
        /\ hub.client[c].send # <<>>
        /\ hub.client[d].send # <<>>
        /\ LastSent(hub, c)[1] = "gameUpdate"
        /\ LastSent(hub, d)[1] = "gameUpdate"
        /\ LastSent(hub, c) # LastSent(hub, d)
        /\ Queued(hub, e, "gameUpdate") = {}

\* the hub has received the unregister of the connection
Unregistered(h, c) == h.client[c].reader \in {"close", "done"}

\* the connection is in none of the three indices
Unindexed(h, c) ==
    /\ c \notin h.clients
    /\ \A t \in DOMAIN h.tables : c \notin h.tables[t]
    /\ \A p \in DOMAIN h.playerMap : h.playerMap[p] # c

\* C23: once the hub has processed the unregister of a connection, the
\* connection is in none of the three indices and its queue is closed; from
\* then on no broadcast or send adds to its queue; and an unregister of a
\* connection that is not registered leaves the hub as it is
C23_Unregistered ==
    /\ [](\A c \in ConnIds :
            /\ Unregistered(hub, c) => Unindexed(hub, c) /\ hub.client[c].closed
            /\ c \notin hub.clients => RunUnregister(hub, c) = hub)
    /\ [][\A c \in ConnIds :
            Unregistered(hub, c) =>
                /\ Unregistered(hub', c)
                /\ IsSuffix(hub'.client[c].send, hub.client[c].send)]_vars

C23_Witness ==
    \E c, d \in ConnIds :
        /\ Unregistered(hub, c)
        /\ d \in Registered(hub)
        /\ hub.client[d].tableID = hub.client[c].tableID
        /\ hub.client[c].send # <<>>
        /\ Queued(hub, c, "playerLeft") = {}
        /\ Queued(hub, d, "playerLeft") # {}

\* the connection the by-player index gives for a player, as a set
ForPlayer(h, p) == IF p \in DOMAIN h.playerMap THEN {h.playerMap[p]} ELSE {}

\* what a best-effort delivery to the recipients cs does: a full queue keeps
\* its contents, every other recipient's queue gains its message, no queue of
\* anybody else changes, and the indices stay as they are
BestEffort(cs, dataFor) ==
    /\ \A c \in ConnIds :
          hub'.client[c].send =
              IF c \in cs /\ Len(hub.client[c].send) < QueueCap
              THEN Append(hub.client[c].send, dataFor[c])
              ELSE hub.client[c].send
    /\ hub'.clients = hub.clients
    /\ hub'.tables = hub.tables
    /\ hub'.playerMap = hub.playerMap
    /\ ~hub'.panic

\* C24: BroadcastToTable, BroadcastGameUpdate and SendToPlayer can always be
\* called and return; a recipient whose queue is full keeps its queue as it
\* is and stays registered, and every other recipient receives its message
C24_BestEffort ==
    /\ [](/\ \A t \in TableIds : ENABLED TableBroadcast(t)
          /\ \A t \in TableIds : ENABLED GameUpdateBroadcast(t)
          /\ \A p \in HubPlayerIds : ENABLED PlayerSend(p))
    /\ [][/\ \A t \in TableIds :
                TableBroadcast(t) =>
                    BestEffort(OnTable(hub, t),
                               [c \in ConnIds |-> <<"playerLeft", t, 0, <<>> >>])
          /\ \A t \in TableIds :
                GameUpdateBroadcast(t) =>
                    BestEffort(OnTable(hub, t),
                               [c \in ConnIds |->
                                   <<"gameUpdate", t, 0,
                                     GetGameState(game, hub.client[c].playerID)>>])
          /\ \A p \in HubPlayerIds :
                PlayerSend(p) =>
                    BestEffort(ForPlayer(hub, p),
                               [c \in ConnIds |-> <<"note", 0, p, <<>> >>])]_vars

C24_Witness ==
    \E c, d \in Registered(hub) :
        /\ hub.client[d].tableID = hub.client[c].tableID
        /\ Len(hub.client[c].send) = QueueCap
        /\ Queued(hub, c, "playerLeft") = {}
        /\ hub.client[d].send # <<>>
        /\ LastSent(hub, d)[1] = "playerLeft"

\* the hub has received the register of the connection and not its unregister
Live(h, c) == h.client[c].handler \in {"welcome", "done"} /\ ~Unregistered(h, c)

\* C25: a connection that has been registered and not unregistered is in the
\* all-connections index, in the by-table index under its table, and is the
\* connection the by-player index gives for its player, whatever the other
\* connections do
C25_IndexedWhileRegistered ==
    \A c \in ConnIds :
        Live(hub, c) =>
            /\ c \in hub.clients
            /\ c \in OnTable(hub, hub.client[c].tableID)
            /\ ForPlayer(hub, hub.client[c].playerID) = {c}

IsPrefix(s, t) == Len(s) <= Len(t) /\ s = SubSeq(t, 1, Len(s))

\* C26: the hub loop receives the register and unregister events in the
\* order in which they were sent to it
C26_InSubmissionOrder == IsPrefix(order.processed, order.submitted)

\* the indices change only in steps of the hub loop
IndicesOnlyInLoop ==
    [][<<hub.clients, hub.tables, hub.playerMap>>' # <<hub.clients, hub.tables, hub.playerMap>>
        => HubRegister \/ HubUnregister]_vars

\* the read side or the write side of the session has failed
Failed(h, c) ==
    \/ h.client[c].reader \in {"unregister", "close", "done"}
    \/ h.client[c].writer = "done"

\* the session is over: connection closed, both pumps ended, unregistered
TornDown(h, c) ==
    /\ h.client[c].conn = "closed"
    /\ h.client[c].reader = "done"
    /\ h.client[c].writer = "done"
    /\ Unindexed(h, c)
    /\ h.client[c].closed

\* C27: a session whose read side or write side has failed is eventually
\* over: its connection is closed, both of its sides have ended, and it is in
\* none of the hub's indices and its queue is closed
C27_TearDown == \A c \in ConnIds : Failed(hub, c) ~> TornDown(hub, c)

C27_Witness ==
    \E c, d \in ConnIds :
        /\ c # d
        /\ TornDown(hub, c)
        /\ d \in Registered(hub)
        /\ hub.client[d].send # <<>>

\* the games of a table that are not Completed
ActiveGames(s, t) ==
    IF t \in DOMAIN s.tables
    THEN {s.tables[t][k] : k \in {j \in 1..Len(s.tables[t]) :
                                    s.objects[s.tables[t][j]].g.Status # Completed}}
    ELSE {}

\* C28: a table never has more than one game that is not Completed
C28_OneActiveGame ==
    \A t \in StoreTables : Cardinality(ActiveGames(store, t)) <= 1

\* how often a card is in a sequence of cards
Copies(cards, c) == Cardinality({k \in 1..Len(cards) : cards[k] = c})

SameCards(a, b) ==
    /\ Len(a) = Len(b)
    /\ \A k \in 1..Len(a) : Copies(a, a[k]) = Copies(b, a[k])

\* the deck as NewDeck has to make it: one face-up card for every suit and
\* rank, the suits in their order and the ranks in their order within a suit
FreshDeck(cards) ==
    /\ Len(cards) = 52
    /\ \A s \in 1..4, r \in 1..13 :
          cards[13 * (s - 1) + r] = [Suit |-> Suits[s], Rank |-> Ranks[r], Face |-> TRUE]
    /\ Cardinality({<<cards[k].Suit, cards[k].Rank>> : k \in 1..Len(cards)}) = 52

\* C29: NewDeck makes the 52 different cards face up in suit-then-rank order;
\* Shuffle leaves the same cards in the deck; DrawCard on a deck with cards
\* returns the front card and leaves the others in their order, one fewer;
\* DrawCard on an empty deck fails and leaves it empty; RemainingCards
\* returns the number of cards and leaves the deck alone
C29_DeckOperations ==
    /\ last.op = "NewDeck" => FreshDeck(game.Deck)
    /\ last.op = "Shuffle" => SameCards(game.Deck, last.pre.Deck)
    /\ last.op = "DrawCard" /\ last.pre.Deck # <<>> =>
          /\ last.ok
          /\ last.card = Head(last.pre.Deck)
          /\ game.Deck = Tail(last.pre.Deck)
          /\ RemainingCards(game.Deck) = RemainingCards(last.pre.Deck) - 1
    /\ last.op = "DrawCard" /\ last.pre.Deck = <<>> =>
          /\ ~last.ok
          /\ game.Deck = <<>>
    /\ last.op = "RemainingCards" =>
          /\ last.amount = Len(game.Deck)
          /\ game = last.pre

C29_Witness ==
    /\ last.op = "DrawCard"
    /\ last.ok
    /\ rounds > 0
    /\ Len(game.Deck) = 1
    /\ game.Deck # SubSeq(NewDeck, 52, 52)

\* place of a rank in Ace, 2, ..., 10, Jack, Queen, King
RankPlace(rank) == CHOOSE k \in 1..Len(Ranks) : Ranks[k] = rank

\* the points of a card that is not counted as 11
Points(c) ==
    IF RankPlace(c.Rank) >= 10 THEN 10 ELSE RankPlace(c.Rank)

RECURSIVE TotalWith(_, _, _)
\* the total of the hand from card k on when the Aces in high count 11
TotalWith(hand, high, k) ==
    IF k > Len(hand) THEN 0
    ELSE (IF k \in high THEN 11 ELSE Points(hand[k])) + TotalWith(hand, high, k + 1)

\* every total the hand can be given by counting each Ace as 1 or as 11
Totals(hand) == {TotalWith(hand, high, 1) : high \in SUBSET OfRank(hand, "Ace")}

Largest(S) == CHOOSE n \in S : \A m \in S : m <= n

BestTotal(hand) ==
    IF \E n \in Totals(hand) : n <= 21
    THEN Largest({n \in Totals(hand) : n <= 21})
    ELSE TotalWith(hand, {}, 1)

CardOf(rank) == [Suit |-> "Hearts", Rank |-> rank, Face |-> TRUE]

\* C30: the score of a hand is the largest total not above 21 that counting
\* each Ace as 1 or 11 can give, or the total with every Ace as 1 when all
\* totals are above 21; the hands named in the claim score 0, 21, 12, 21 and
\* 21; scoring changes nothing
C30_HandScore ==
    /\ last.op = "CalculateHandScore" =>
          /\ last.amount = BestTotal(game.Dealer.Hand)
          /\ game = last.pre
    /\ CalculateHandScore(<<>>) = 0
    /\ CalculateHandScore(<<CardOf("Ace"), CardOf("King")>>) = 21
    /\ CalculateHandScore(<<CardOf("Ace"), CardOf("Ace")>>) = 12
    /\ CalculateHandScore(<<CardOf("Ace"), CardOf("Ace"), CardOf("9")>>) = 21
    /\ CalculateHandScore(<<CardOf("5"), CardOf("6"), CardOf("Queen")>>) = 21

C30_Witness ==
    /\ last.op = "CalculateHandScore"
    /\ Cardinality(OfRank(game.Dealer.Hand, "Ace")) = 2
    /\ Len(game.Dealer.Hand) = 3
    /\ last.amount = 21

(***************************************************************************)
(* The answers of the REST handlers: each request on the store is answered *)
(* with an HTTP status, kept in last.code.                                 *)
(***************************************************************************)
StatusOK == 200
StatusBadRequest == 400
StatusNotFound == 404

\* Handlers.Hit: the store after the request and the status of the answer
HandlersHit(s, id, playerID) ==
    LET ptr == GetGameById(s, id) IN
    IF ptr = 0 THEN [s |-> s, code |-> StatusNotFound]
    ELSE LET r == Hit(s.objects[ptr].g, playerID) IN
         IF ~r.ok THEN [s |-> s, code |-> StatusBadRequest]
         ELSE [s |-> SaveGame([s EXCEPT !.objects[ptr].g = r.g], ptr), code |-> StatusOK]

\* Handlers.Stand
HandlersStand(s, id, playerID) ==
    LET ptr == GetGameById(s, id) IN
    IF ptr = 0 THEN [s |-> s, code |-> StatusNotFound]
    ELSE LET r == Stand(s.objects[ptr].g, playerID) IN
         IF ~r.ok THEN [s |-> s, code |-> StatusBadRequest]
         ELSE [s |-> SaveGame([s EXCEPT !.objects[ptr].g = r.g], ptr), code |-> StatusOK]

\* the status Handlers.PlaceBet answers with
PlaceBetStatus(s, id, playerID, amount) ==
    LET ptr == GetGameById(s, id) IN
    IF ptr = 0 THEN StatusNotFound
    ELSE IF ~PlaceBet(s.objects[ptr].g, playerID, amount).ok THEN StatusBadRequest
    ELSE StatusOK

\* the status Handlers.LeaveTable answers with
LeaveTableStatus(s, tableID, playerID) ==
    LET ptr == GetActiveTableGame(s, tableID) IN
    IF ptr = 0 THEN StatusNotFound
    ELSE IF ~LeaveTable(s.objects[ptr].g, playerID).ok THEN StatusBadRequest
    ELSE StatusOK

Answer(op, pid, target, s, code) ==
    /\ Within(s)
    /\ store' = s
    /\ last' = [op |-> op, pid |-> pid, amount |-> target, ok |-> code = StatusOK,
                pre |-> game, code |-> code]
    /\ UNCHANGED <<game, rounds, reqs, start, hub, order>>

AnswerPlayers == {1, 2}

PostHit(id, p) ==
    LET a == HandlersHit(store, id, p) IN Answer("Hit", p, id, a.s, a.code)

PostStand(id, p) ==
    LET a == HandlersStand(store, id, p) IN Answer("Stand", p, id, a.s, a.code)

PostPlaceBet(id, p, amount) ==
    Answer("PlaceBet", p, id, HandlersPlaceBet(store, id, p, amount),
           PlaceBetStatus(store, id, p, amount))

PostLeaveTable(t, p) ==
    Answer("LeaveTable", p, t, HandlersLeaveTable(store, t, p),
           LeaveTableStatus(store, t, p))

ReqHit == \E id \in 1..MaxGames, p \in AnswerPlayers : PostHit(id, p)

ReqStand == \E id \in 1..MaxGames, p \in AnswerPlayers : PostStand(id, p)

ReqBet ==
    \E id \in 1..MaxGames, p \in AnswerPlayers, amount \in MinBet..MaxBet :
        PostPlaceBet(id, p, amount)

ReqLeave == \E t \in StoreTables, p \in AnswerPlayers : PostLeaveTable(t, p)

NextAnswer ==
    \/ ReqJoinTable
    \/ ReqHit
    \/ ReqStand
    \/ ReqBet
    \/ ReqLeave

SpecAnswer == InitCrowd /\ [][NextAnswer]_vars

\* the game the id names has no player with this id
UnknownPlayer(s, id, p) ==
    /\ GetGameById(s, id) # 0
    /\ SeatOf(s.objects[GetGameById(s, id)].g, p) = 0

\* the table's active game has no player with this id
UnknownAtTable(s, t, p) ==
    /\ GetActiveTableGame(s, t) # 0
    /\ SeatOf(s.objects[GetActiveTableGame(s, t)].g, p) = 0

\* the request breaks a rule of the game: the game and the player exist and
\* the engine refuses the call
HitRefused(s, id, p) ==
    /\ GetGameById(s, id) # 0
    /\ SeatOf(s.objects[GetGameById(s, id)].g, p) # 0
    /\ ~Hit(s.objects[GetGameById(s, id)].g, p).ok

\* C31: a hit, stand, place-bet or leave-table request that names an unknown
\* game, an unknown table or a player who is not in the game is answered
\* with the not-found status, and a request that breaks a rule of the game
\* is answered with another status
C31_NotFoundDistinct ==
    [][/\ \A id \in 1..MaxGames, p \in AnswerPlayers :
            /\ PostHit(id, p) /\ (GetGameById(store, id) = 0 \/ UnknownPlayer(store, id, p))
                  => last'.code = StatusNotFound
            /\ PostHit(id, p) /\ HitRefused(store, id, p)
                  => last'.code # StatusNotFound
            /\ PostStand(id, p) /\ (GetGameById(store, id) = 0 \/ UnknownPlayer(store, id, p))
                  => last'.code = StatusNotFound
            /\ \A amount \in MinBet..MaxBet :
                  PostPlaceBet(id, p, amount)
                     /\ (GetGameById(store, id) = 0 \/ UnknownPlayer(store, id, p))
                  => last'.code = StatusNotFound
       /\ \A t \in StoreTables, p \in AnswerPlayers :
            PostLeaveTable(t, p)
               /\ (GetActiveTableGame(store, t) = 0 \/ UnknownAtTable(store, t, p))
            => last'.code = StatusNotFound]_vars

\* the part of C31 the handlers keep: an unknown game or a table without an
\* active game is answered with the not-found status
C31_UnknownGameNotFound ==
    [][/\ \A id \in 1..MaxGames, p \in AnswerPlayers :
            (PostHit(id, p) \/ PostStand(id, p) \/ \E amount \in MinBet..MaxBet :
                PostPlaceBet(id, p, amount)) /\ GetGameById(store, id) = 0
            => last'.code = StatusNotFound
       /\ \A t \in StoreTables, p \in AnswerPlayers :
            PostLeaveTable(t, p) /\ GetActiveTableGame(store, t) = 0
            => last'.code = StatusNotFound]_vars

\* C32: no seated player ever has a negative bet or a negative balance,
\* whatever bets, deals, hits, stands, settlements and new rounds the
\* requests made
C32_NonNegative ==
    \A i \in 1..Len(game.Players) :
        /\ game.Players[i].Bet >= 0
        /\ game.Players[i].Balance >= 0

\* the game that differs from g only in the suit and rank of the dealer's
\* second card
WithHoleCard(g, c) ==
    [g EXCEPT !.Dealer.Hand[2] = [Suit |-> c.Suit, Rank |-> c.Rank, Face |-> @.Face]]

\* the round is being played and the dealer phase has not begun
BeforeDealerPhase(g) == g.Status = InProgress /\ Len(g.Dealer.Hand) = 2

\* C33: from Start until the dealer phase the dealer's second card is face
\* down, and the view GetGameState gives any viewer is the same for the game
\* and for every game that differs from it only in the suit and rank of that
\* card
C33_HoleCardHidden ==
    BeforeDealerPhase(game) =>
        /\ ~game.Dealer.Hand[2].Face
        /\ \A p \in ViewerIds, k \in 1..Len(game.Deck) :
              GetGameState(WithHoleCard(game, game.Deck[k]), p) = GetGameState(game, p)

\* the part of C33 the engine keeps: the second card is flagged face down
\* until the dealer phase, and every card of the dealer is face up after it
C33_FaceDownUntilDealerPhase ==
    /\ BeforeDealerPhase(game) =>
          game.Dealer.Hand[1].Face /\ ~game.Dealer.Hand[2].Face
    /\ game.Status = Completed =>
          \A k \in 1..Len(game.Dealer.Hand) : game.Dealer.Hand[k].Face

\* some seated player can hit or stand
SomeoneCanAct(g) ==
    \E i \in 1..Len(g.Players) :
        Hit(g, g.Players[i].ID).ok \/ Stand(g, g.Players[i].ID).ok

\* the first seat holds a two-card 21 in a round that is being played
FirstSeatBlackjack(g) ==
    /\ g.Status = InProgress
    /\ Len(g.Players) > 0
    /\ g.Players[1].Status = PlayerBlackjack

(***************************************************************************)
(* Rounds whose players keep acting: the shuffles deal a two-card 21 to    *)
(* the second seat, to the first seat, or to both.                         *)
(***************************************************************************)
\* front of the deck: A K | 9 7 | 6 8 | 10
TapeFirstBlackjack ==
    <<1, 2, 3, 1, 1, 3, 1, 2, 3, 4, 10, 11, 13, 14, 15, 16, 17, 18, 19, 20, 21, 22, 23, 24, 25, 26, 27, 28, 29, 30, 31, 32, 33, 34, 35, 36, 37, 38, 39, 40, 41, 42, 43, 44, 45, 46, 47, 48, 49, 50, 51>>

\* front of the deck: A K | A Q | 6 8 | 10
TapeAllBlackjack ==
    <<1, 1, 3, 1, 1, 3, 1, 2, 3, 4, 6, 8, 10, 14, 15, 16, 17, 18, 19, 20, 21, 22, 23, 24, 25, 26, 27, 28, 29, 30, 31, 32, 33, 34, 35, 36, 37, 38, 39, 40, 41, 42, 43, 44, 45, 46, 47, 48, 49, 50, 51>>

PlayTapes == {TapeStandWin, TapeFirstBlackjack, TapeAllBlackjack}

PlayPrepareForNextRound ==
    \E tape \in PlayTapes :
        /\ rounds < MaxRounds
        /\ Len(game.Players) = Cardinality(PlayerIds)
        /\ game.Status \in {Waiting, Completed}
        /\ Call("PrepareForNextRound", 0, 0, [g |-> PrepareForNextRound(game, tape), ok |-> TRUE])
        /\ rounds' = rounds + 1

\* a player whose stand is accepted stands
ActStand ==
    \E p \in PlayerIds :
        /\ Stand(game, p).ok
        /\ Call("Stand", p, 0, Stand(game, p))
        /\ UNCHANGED rounds

NextPlay ==
    \/ SettleAddPlayer
    \/ PlayPrepareForNextRound
    \/ DoPlaceBet
    \/ DoStart
    \/ DoHit
    \/ DoStand

\* the players keep acting: a stand that stays possible is made
SpecPlay == InitCrowd /\ [][NextPlay]_vars /\ WF_vars(ActStand)

\* C34: in every state of a round that is being played some seated player
\* can hit or stand, so that a round whose players keep acting is always
\* brought to Completed, also when the first seat or every seat was dealt a
\* two-card 21
C34_RoundLiveness ==
    /\ [](game.Status = InProgress => SomeoneCanAct(game))
    /\ (game.Status = InProgress) ~> (game.Status = Completed)

\* the rounds the first half of C34 holds for: the first seat was not dealt
\* a two-card 21
C34_CanActUnlessFirstBlackjack ==
    game.Status = InProgress /\ ~FirstSeatBlackjack(game) => SomeoneCanAct(game)

\* what a seat holds: the balance and the amount staked
Holdings(g, i) == g.Players[i].Balance + g.Players[i].Bet

\* C35: during Betting a PlaceBet call, accepted or refused, leaves every
\* seat's balance + bet as it was, so the sum after any sequence of calls is
\* the sum at the start of the betting phase and a second bet does not lose
\* the amount of the first
C35_EscrowConserved ==
    [][game.Status = Betting /\ last'.op = "PlaceBet" =>
          /\ Len(game'.Players) = Len(game.Players)
          /\ \A i \in 1..Len(game.Players) : Holdings(game', i) = Holdings(game, i)]_vars

\* the part of C35 the engine keeps: a refused call and a seat's first bet
\* of the phase leave balance + bet as it was
C35_FirstBetConserved ==
    [][game.Status = Betting /\ last'.op = "PlaceBet" =>
          \A i \in 1..Len(game.Players) :
              ~last'.ok \/ game.Players[i].Bet = 0 => Holdings(game', i) = Holdings(game, i)]_vars

(***************************************************************************)
(* The table handlers with the hub: each request changes the store and     *)
(* then broadcasts its message to the clients of the table.                *)
(***************************************************************************)
\* Handlers.JoinTable: g.AddPlayer returned a player and not nil; s2 is the
\* store the handler leaves
JoinTableJoined(s2, tableID, playerID) ==
    LET ptr == GetActiveTableGame(s2, tableID)
    IN ptr # 0 /\ SeatOf(s2.objects[ptr].g, playerID) # 0

\* the player g.AddPlayer returned in Handlers.JoinTable
JoinTablePlayer(s2, tableID, playerID) ==
    LET g == s2.objects[GetActiveTableGame(s2, tableID)].g
    IN g.Players[SeatOf(g, playerID)]

\* the messages the handlers broadcast: Data is the whole game, the whole
\* player, or absent
GameCreatedMessage(s, ptr) ==
    [Type |-> "gameCreated", TableID |-> s.objects[ptr].TableID, PlayerID |-> 0,
     Data |-> s.objects[ptr].g]

PlayerJoinedMessage(tableID, player) ==
    [Type |-> "playerJoined", TableID |-> tableID, PlayerID |-> player.ID, Data |-> player]

PlayerLeftMessage(tableID, playerID) ==
    [Type |-> "playerLeft", TableID |-> tableID, PlayerID |-> playerID, Data |-> <<>>]

\* the handler leaves the store s and then broadcasts, which takes the hub
\* to h
TableStep(s, h) ==
    /\ Within(s)
    /\ store' = s
    /\ hub' = h
    /\ UNCHANGED <<game, last, rounds, reqs, start, order>>

PostNewGame(t) ==
    TableStep(HandlersNewGame(store, t),
              BroadcastToTable(hub, t, GameCreatedMessage(store', Len(store'.objects))))

PostJoinTable(t, p) ==
    TableStep(HandlersJoinTable(store, t, p),
              IF ~JoinTableJoined(store', t, p) THEN hub
              ELSE BroadcastToTable(hub, t,
                       PlayerJoinedMessage(t, JoinTablePlayer(store', t, p))))

PostLeave(t, p) ==
    TableStep(HandlersLeaveTable(store, t, p),
              IF LeaveTableStatus(store, t, p) # StatusOK THEN hub
              ELSE BroadcastToTable(hub, t, PlayerLeftMessage(t, p)))

\* the requests name the table two of the connections sit at
PostTables == {1}

TableNewGame == \E t \in PostTables : PostNewGame(t)

TableJoinTable == \E t \in PostTables, p \in HubPlayerIds : PostJoinTable(t, p)

TableLeaveTable == \E t \in PostTables, p \in HubPlayerIds : PostLeave(t, p)

NextTable ==
    \/ PairConnect
    \/ HubRegister
    \/ Welcome
    \/ TableNewGame
    \/ TableJoinTable
    \/ TableLeaveTable

SpecTable == InitHub /\ [][NextTable]_vars

\* the players whose balance a marshalled message carries
BalancesIn(data) ==
    CASE data[1] = "playerJoined" -> {data[4].ID}
      [] data[1] = "gameCreated" -> {data[4].Players[i].ID : i \in 1..Len(data[4].Players)}
      [] data[1] = "gameUpdate" ->
            {data[4].players[i].id : i \in {j \in 1..Len(data[4].players) :
                                              "balance" \in DOMAIN data[4].players[j]}}
      [] OTHER -> {}

\* the message carries the undealt deck
DeckIn(data) == data[1] = "gameCreated" /\ "Deck" \in DOMAIN data[4]

\* C36: no message in the queue of a connection carries the balance of a
\* player other than the connection's own, whatever its type, and none
\* carries the order of the undealt deck
C36_NoForeignBalance ==
    \A c \in ConnIds :
        \A k \in 1..Len(hub.client[c].send) :
            /\ BalancesIn(hub.client[c].send[k]) \subseteq {hub.client[c].playerID}
            /\ ~DeckIn(hub.client[c].send[k])

\* a connection holds the playerJoined message of another player
C36_ForeignPlayerJoined ==
    \E c \in ConnIds :
        \E k \in 1..Len(hub.client[c].send) :
            /\ hub.client[c].send[k][1] = "playerJoined"
            /\ hub.client[c].send[k][4].ID # hub.client[c].playerID

\* C37: the hub never sends on a closed outbound queue and never closes a
\* queue a second time, however the register and unregister handling of the
\* hub loop, the three senders, the welcome send and the read pumps'
\* unregister requests interleave; a second unregister of a connection,
\* handled by the hub loop right after the first, closes nothing
C37_NoClosedQueueUse ==
    /\ ~hub.panic
    /\ \A c \in ConnIds : ~RunUnregister(RunUnregister(hub, c), c).panic

\* a connection was unregistered and its queue closed while another
\* connection of its table stays registered and holds a broadcast message
C37_Witness ==
    \E c, d \in ConnIds :
        /\ c # d
        /\ hub.client[c].closed
        /\ c \notin hub.clients
        /\ d \in hub.clients
        /\ hub.client[d].tableID = hub.client[c].tableID
        /\ \E k \in 1..Len(hub.client[d].send) : hub.client[d].send[k][1] = "playerLeft"

\* C38: the first message placed on a connection's queue is its welcome
\* message: while nothing has been written out, the queue is empty or starts
\* with the welcome, whatever broadcasts and unicasts ran meanwhile
C38_WelcomeFirst ==
    \A c \in ConnIds :
        hub.client[c].send # <<>> => hub.client[c].send[1][1] = "welcome"

\* the part of C38 the hub keeps: nothing is enqueued for a connection the
\* hub loop has not registered yet
C38_NothingBeforeRegister ==
    \A c \in ConnIds :
        hub.client[c].handler \in {"idle", "register"} => hub.client[c].send = <<>>

\* the round was completed by the dealer phase: the dealer's second card has
\* been turned face up
DealerPhaseDone(g) ==
    /\ g.Status = Completed
    /\ Len(g.Dealer.Hand) >= 2
    /\ g.Dealer.Hand[2].Face

\* C39: each seat's score field is the score of its hand; the dealer's score
\* field is the value of its one face-up card from Start until the dealer
\* phase and the score of the dealer's hand once the dealer phase has
\* completed the round
C39_ScoreFields ==
    /\ \A i \in 1..Len(game.Players) :
          game.Players[i].Score = CalculateHandScore(game.Players[i].Hand)
    /\ game.Status = InProgress =>
          /\ Len(game.Dealer.Hand) = 2
          /\ game.Dealer.Hand[1].Face /\ ~game.Dealer.Hand[2].Face
          /\ game.Dealer.Score = GetValue(game.Dealer.Hand[1])
    /\ DealerPhaseDone(game) =>
          game.Dealer.Score = CalculateHandScore(game.Dealer.Hand)

(***************************************************************************)
(* The MemoryStore under any sequence of SaveGame and DeleteGame calls.    *)
(***************************************************************************)
\* the list without its first game with this id
RemoveFirst(s, games, id) ==
    LET found == {k \in 1..Len(games) : s.objects[games[k]].ID = id} IN
    IF found = {} THEN games
    ELSE LET i == CHOOSE k \in found : \A j \in found : k <= j IN
         SubSeq(games, 1, i - 1) \o SubSeq(games, i + 1, Len(games))

\* DeleteGame: the id leaves the games map and the first entry with the id
\* leaves the list of the game's table; an unknown id is an error
DeleteGame(s, id) ==
    IF id \notin DOMAIN s.games THEN s
    ELSE LET t == s.objects[s.games[id]].TableID IN
         [s EXCEPT !.games = MapDelete(@, id),
                   !.tables = IF t \in DOMAIN @
                              THEN MapPut(@, t, RemoveFirst(s, @[t], id))
                              ELSE @]

\* GetTableGames: the list of the table, empty for an unknown table
GetTableGames(s, tableID) ==
    IF tableID \in DOMAIN s.tables THEN s.tables[tableID] ELSE <<>>

\* a new game is created and saved
MemSaveNew == \E t \in StoreTables : StoreStep(HandlersNewGame(store, t))

\* a game is saved again, as every handler does after a change
MemSaveAgain == \E ptr \in 1..Len(store.objects) : StoreStep(SaveGame(store, ptr))

MemDeleteGame == \E id \in 1..MaxGames : StoreStep(DeleteGame(store, id))

NextMem ==
    \/ MemSaveNew
    \/ MemSaveAgain
    \/ MemDeleteGame

SpecMem == InitCrowd /\ [][NextMem]_vars

\* the games a table's list names, with the number of entries of each
Listed(s, tableID, ptr) ==
    Cardinality({k \in 1..Len(GetTableGames(s, tableID)) : GetTableGames(s, tableID)[k] = ptr})

\* C40: a table's list holds each stored game at most once and no game that
\* is absent from the games map, so a deleted game is returned neither by
\* GetGame nor by GetTableGames nor by GetActiveTableGame
C40_TableListExact ==
    \A t \in StoreTables, ptr \in 1..Len(store.objects) :
        /\ Listed(store, t, ptr) <= 1
        /\ GetGameById(store, store.objects[ptr].ID) = 0 =>
              /\ Listed(store, t, ptr) = 0
              /\ GetActiveTableGame(store, t) # ptr

\* the part of C40 the store keeps: GetGame does not return a deleted game,
\* and a game that was saved once is gone from its table's list as well
C40_DeletedFromMap ==
    [][\A id \in 1..MaxGames :
          id \in DOMAIN store.games /\ store' = DeleteGame(store, id) =>
              /\ GetGameById(store', id) = 0
              /\ \A t \in StoreTables :
                    Listed(store, t, store.games[id]) = 1 =>
                        Listed(store', t, store.games[id]) = 0]_vars

=============================================================================
